---- MODULE Spec2Model ----
(***************************************************************************)
(* A model of the TALQS persistence router (lib/unified-data-service), the *)
(* Firestore provider store (lib/firebase-db), the question-answering      *)
(* routes and the summarization route.                                     *)
(*                                                                         *)
(* Conventions.  A JavaScript value that may be null is a sequence of      *)
(* length at most one: << >> is null, <<r>> is the record r.  A list is a  *)
(* sequence.  A boolean result is <<TRUE>> or <<FALSE>>.  A Firestore      *)
(* collection is a set of records, each carrying its document id.          *)
(* Server timestamps are positive integers taken from the store's commit   *)
(* clock, which advances at every committed write; the unresolved          *)
(* serverTimestamp() sentinel that the client keeps in the objects it      *)
(* returns is ServerTimestampSentinel.                                     *)
(***************************************************************************)
EXTENDS Integers, Sequences, FiniteSets, TLC

\* ------------------------------------------------------------------ bounds
MaxClock == 2
NumProcs == 2
NumRequests == 1
NumCallers == 2
MaxChunks == 2
MaxTextLen == 4
MaxTokens == 2
MaxSentences == 4

\* ------------------------------------------------------------- input sets
Users == {"u1", "u2"}
Fingerprints == {"f1", "f2"}
Names == {"n1", "n2"}
MessageLists == <<(<<[role |-> "user", content |-> "q"]>>),
                  (<<[role |-> "user", content |-> "q"], [role |-> "ai", content |-> "a"]>>)>>
Modes == {"mongodb", "firebase", "both"}
ServerTimestampSentinel == 0

UserInputs == [email : Users, name : Names]
Doc(u, f, x) == [userId |-> u, fingerprint |-> f, fileName |-> x.fileName, fileSize |-> x.fileSize]
FileA == [fileName |-> "a.txt", fileSize |-> 1]
FileB == [fileName |-> "b.txt", fileSize |-> 2]
DocInputs == {Doc("u1", "f1", FileA), Doc("u1", "f1", FileB), Doc("u1", "f2", FileA), Doc("u2", "f1", FileA)}
ChatInputs == [userId : Users, messages : {MessageLists[1]}]
Ids == 1..MaxClock

VARIABLES
  DATABASE_PROVIDER,  \* config: the operating mode, read once at start
  fbEnabled,          \* config: DATA_PROVIDERS.firebase (= FIREBASE_ENABLED)
  fbAvail,            \* firebase-db isAvailable(): configured and firebaseDb initialised
  fbUsers,            \* Firestore collection 'users'
  fbDocs,             \* Firestore collection 'documents'
  fbChats,            \* Firestore collection 'chatHistory'
  memDocs,            \* inMemoryDocumentStore
  now,                \* commit clock: the last server timestamp handed out
  nextId,             \* next fresh document id
  last,               \* the last completed Router call
  pc,                 \* per request: position inside a provider-store operation
  req,                \* per request: the operation and its argument
  snap,               \* per request: the query snapshot read by getDocs
  mongoDocs,          \* MongoDB collection 'documents' (with content)
  history,            \* chat history: the messages saved for each user, in order
  apc,                \* per answer request: position in the POST handler
  areq,               \* per answer request: the request body and the handler's locals
  resp,               \* per answer request: the HTTP response
  spc,                \* summarizeChunks: "idle", "waiting" on Promise.all, or "done"
  schunks,            \* summarizeChunks: the chunks it was called with
  sfetch,             \* summarizeChunks: the state of each chunk's fetch
  summaries,          \* summarizeChunks: the array it returned
  fullText,           \* chunkText: the text before cleanText
  maxChunkLength      \* chunkText: the word limit of a chunk

routerVars == <<DATABASE_PROVIDER, fbEnabled, fbAvail, fbUsers, fbDocs, fbChats, memDocs, now, nextId, last>>
storeVars == <<pc, req, snap>>
answerVars == <<mongoDocs, history, apc, areq, resp>>
summarizeVars == <<spc, schunks, sfetch, summaries, fullText, maxChunkLength>>

\* ------------------------------------------------------- sequence helpers
MinId(S) == CHOOSE r \in S : \A q \in S : r.id <= q.id

RECURSIVE OrderByLastAccessedDesc(_)
OrderByLastAccessedDesc(S) ==
  IF S = {} THEN << >>
  ELSE LET m == CHOOSE r \in S : \A q \in S :
                  \/ r.lastAccessedAt > q.lastAccessedAt
                  \/ (r.lastAccessedAt = q.lastAccessedAt /\ r.id >= q.id)
       IN <<m>> \o OrderByLastAccessedDesc(S \ {m})

RECURSIVE OrderByUpdatedDesc(_)
OrderByUpdatedDesc(S) ==
  IF S = {} THEN << >>
  ELSE LET m == CHOOSE r \in S : \A q \in S :
                  \/ r.updatedAt > q.updatedAt
                  \/ (r.updatedAt = q.updatedAt /\ r.id >= q.id)
       IN <<m>> \o OrderByUpdatedDesc(S \ {m})

RECURSIVE OrderById(_)
OrderById(S) ==
  IF S = {} THEN << >> ELSE LET m == MinId(S) IN <<m>> \o OrderById(S \ {m})

\* ------------------------------------------------------------------ config
mongoEnabled == TRUE
UseFirebase == fbEnabled /\ DATABASE_PROVIDER \in {"firebase", "both"}
UseMongo == mongoEnabled /\ DATABASE_PROVIDER \in {"mongodb", "both"}
isAvailable == fbEnabled /\ fbAvail
\* a Firestore request can throw only where Firestore is actually reached
Fails == IF UseFirebase /\ isAvailable THEN BOOLEAN ELSE {FALSE}

\* ---------------------------------------------- Firestore store: users
\* getDocs(query(users, where('email','==',email)))
UserQuery(email) == {r \in fbUsers : r.email = email}

\* the part of upsertUser that runs after the query returned `snapshot`
\* variant: inserts without looking at the snapshot
upsertUser_write_alwaysInsert(snapshot, userData) ==
  [res |-> <<[id |-> nextId, email |-> userData.email, name |-> userData.name,
              createdAt |-> ServerTimestampSentinel, updatedAt |-> ServerTimestampSentinel]>>,
   users |-> fbUsers \cup {[id |-> nextId, email |-> userData.email, name |-> userData.name,
                            createdAt |-> now + 1, updatedAt |-> now + 1]}]

\* variant: looks the email up again at write time, as under a lock
upsertUser_write_recheck(snapshot, userData) ==
  LET cur == UserQuery(userData.email) IN
  IF cur # {}
  THEN LET userDoc == MinId(cur) IN
       [res |-> <<[id |-> userDoc.id, email |-> userData.email, name |-> userData.name,
                   createdAt |-> userDoc.createdAt, updatedAt |-> ServerTimestampSentinel]>>,
        users |-> (fbUsers \ {userDoc}) \cup
                  {[userDoc EXCEPT !.email = userData.email, !.name = userData.name, !.updatedAt = now + 1]}]
  ELSE [res |-> <<[id |-> nextId, email |-> userData.email, name |-> userData.name,
                   createdAt |-> ServerTimestampSentinel, updatedAt |-> ServerTimestampSentinel]>>,
        users |-> fbUsers \cup {[id |-> nextId, email |-> userData.email, name |-> userData.name,
                                 createdAt |-> now + 1, updatedAt |-> now + 1]}]

upsertUser_write(snapshot, userData) ==
  IF snapshot # {}
  THEN LET userDoc == MinId(snapshot) IN
       IF \E r \in fbUsers : r.id = userDoc.id
       THEN LET cur == CHOOSE r \in fbUsers : r.id = userDoc.id IN
            [res |-> <<[id |-> userDoc.id, email |-> userData.email, name |-> userData.name,
                        createdAt |-> userDoc.createdAt, updatedAt |-> ServerTimestampSentinel]>>,
             users |-> (fbUsers \ {cur}) \cup
                       {[cur EXCEPT !.email = userData.email, !.name = userData.name, !.updatedAt = now + 1]}]
       ELSE [res |-> << >>, users |-> fbUsers]
  ELSE [res |-> <<[id |-> nextId, email |-> userData.email, name |-> userData.name,
                   createdAt |-> ServerTimestampSentinel, updatedAt |-> ServerTimestampSentinel]>>,
        users |-> fbUsers \cup {[id |-> nextId, email |-> userData.email, name |-> userData.name,
                                 createdAt |-> now + 1, updatedAt |-> now + 1]}]

firebase_upsertUser(userData, fail) ==
  IF ~isAvailable \/ fail THEN [res |-> << >>, users |-> fbUsers]
  ELSE upsertUser_write(UserQuery(userData.email), userData)

firebase_getUserByEmail(email, fail) ==
  IF ~isAvailable \/ fail THEN << >>
  ELSE IF UserQuery(email) # {} THEN <<MinId(UserQuery(email))>> ELSE << >>

firebase_getAllUsers(fail) ==
  IF ~isAvailable \/ fail THEN << >> ELSE OrderById(fbUsers)

firebase_deleteUser(userId, fail) ==
  IF ~isAvailable \/ fail THEN [res |-> <<FALSE>>, users |-> fbUsers]
  ELSE [res |-> <<TRUE>>, users |-> {r \in fbUsers : r.id # userId}]

\* ------------------------------------------ Firestore store: documents
DocQuery(userId, fingerprint) ==
  {r \in fbDocs : r.userId = userId /\ r.fingerprint = fingerprint}

\* the part of saveDocument that runs after the query returned `snapshot`
\* variant: an existing record is overwritten with the new file name and size
saveDocument_write_overwrite(snapshot, docData) ==
  IF snapshot # {}
  THEN LET docDoc == MinId(snapshot) IN
       IF \E r \in fbDocs : r.id = docDoc.id
       THEN LET cur == CHOOSE r \in fbDocs : r.id = docDoc.id IN
            [res |-> <<docDoc>>,
             docs |-> (fbDocs \ {cur}) \cup
                      {[cur EXCEPT !.fileName = docData.fileName, !.fileSize = docData.fileSize,
                                   !.lastAccessedAt = now + 1]}]
       ELSE [res |-> << >>, docs |-> fbDocs]
  ELSE [res |-> <<[id |-> nextId, userId |-> docData.userId, fingerprint |-> docData.fingerprint,
                   fileName |-> docData.fileName, fileSize |-> docData.fileSize,
                   uploadedAt |-> ServerTimestampSentinel, lastAccessedAt |-> ServerTimestampSentinel]>>,
        docs |-> fbDocs \cup {[id |-> nextId, userId |-> docData.userId, fingerprint |-> docData.fingerprint,
                               fileName |-> docData.fileName, fileSize |-> docData.fileSize,
                               uploadedAt |-> now + 1, lastAccessedAt |-> now + 1]}]

saveDocument_write(snapshot, docData) ==
  IF snapshot # {}
  THEN LET docDoc == MinId(snapshot) IN
       IF \E r \in fbDocs : r.id = docDoc.id
       THEN LET cur == CHOOSE r \in fbDocs : r.id = docDoc.id IN
            [res |-> <<docDoc>>,
             docs |-> (fbDocs \ {cur}) \cup {[cur EXCEPT !.lastAccessedAt = now + 1]}]
       ELSE [res |-> << >>, docs |-> fbDocs]
  ELSE [res |-> <<[id |-> nextId, userId |-> docData.userId, fingerprint |-> docData.fingerprint,
                   fileName |-> docData.fileName, fileSize |-> docData.fileSize,
                   uploadedAt |-> ServerTimestampSentinel, lastAccessedAt |-> ServerTimestampSentinel]>>,
        docs |-> fbDocs \cup {[id |-> nextId, userId |-> docData.userId, fingerprint |-> docData.fingerprint,
                               fileName |-> docData.fileName, fileSize |-> docData.fileSize,
                               uploadedAt |-> now + 1, lastAccessedAt |-> now + 1]}]

firebase_saveDocument(docData, fail) ==
  IF ~isAvailable \/ fail THEN [res |-> << >>, docs |-> fbDocs]
  ELSE saveDocument_write(DocQuery(docData.userId, docData.fingerprint), docData)

firebase_getUserDocuments(userId, fail) ==
  IF ~isAvailable \/ fail THEN << >>
  ELSE OrderByLastAccessedDesc({r \in fbDocs : r.userId = userId})

firebase_getDocumentByFingerprint(userId, fingerprint, fail) ==
  IF ~isAvailable \/ fail THEN << >>
  ELSE IF DocQuery(userId, fingerprint) # {} THEN <<MinId(DocQuery(userId, fingerprint))>> ELSE << >>

\* ---------------------------------------------- Firestore store: chats
firebase_saveChatHistory(chatData, fail) ==
  IF ~isAvailable \/ fail THEN [res |-> << >>, chats |-> fbChats]
  ELSE [res |-> <<[id |-> nextId, userId |-> chatData.userId, messages |-> chatData.messages,
                   createdAt |-> ServerTimestampSentinel, updatedAt |-> ServerTimestampSentinel]>>,
        chats |-> fbChats \cup {[id |-> nextId, userId |-> chatData.userId, messages |-> chatData.messages,
                                 createdAt |-> now + 1, updatedAt |-> now + 1]}]

firebase_updateChatHistory(chatId, messages, fail) ==
  IF ~isAvailable \/ fail \/ ~(\E r \in fbChats : r.id = chatId)
  THEN [res |-> <<FALSE>>, chats |-> fbChats]
  ELSE LET cur == CHOOSE r \in fbChats : r.id = chatId IN
       [res |-> <<TRUE>>,
        chats |-> (fbChats \ {cur}) \cup {[cur EXCEPT !.messages = messages, !.updatedAt = now + 1]}]

firebase_getUserChatHistory(userId, fail) ==
  IF ~isAvailable \/ fail THEN << >>
  ELSE OrderByUpdatedDesc({r \in fbChats : r.userId = userId})

firebase_deleteChatHistory(chatId, fail) ==
  IF ~isAvailable \/ fail THEN [res |-> <<FALSE>>, chats |-> fbChats]
  ELSE [res |-> <<TRUE>>, chats |-> {r \in fbChats : r.id # chatId}]

\* onSnapshot gives an Unsubscribe handle; null when Firestore is not available
\* or the setup throws
firebase_subscribeToUserChatHistory(userId, fail) ==
  IF ~isAvailable \/ fail THEN << >> ELSE <<"onSnapshot">>

\* ------------------------------------------------------ in-memory store
inMemory_saveDocument(userId, fingerprint, fileName, fileSize) ==
  LET found == {r \in memDocs : r.userId = userId /\ r.fingerprint = fingerprint} IN
  IF found # {}
  THEN LET cur == MinId(found) IN
       [res |-> <<[cur EXCEPT !.lastAccessedAt = now + 1]>>,
        mem |-> (memDocs \ {cur}) \cup {[cur EXCEPT !.lastAccessedAt = now + 1]}]
  ELSE LET d == [id |-> nextId, userId |-> userId, fingerprint |-> fingerprint,
                 fileName |-> fileName, fileSize |-> fileSize,
                 uploadedAt |-> now + 1, lastAccessedAt |-> now + 1] IN
       [res |-> <<d>>, mem |-> memDocs \cup {d}]

inMemory_getUserDocuments(userId) ==
  OrderByLastAccessedDesc({r \in memDocs : r.userId = userId})

inMemory_getDocumentByFingerprint(userId, fingerprint) ==
  LET found == {r \in memDocs : r.userId = userId /\ r.fingerprint = fingerprint} IN
  IF found # {} THEN <<MinId(found)>> ELSE << >>

\* ------------------------------------------------- mongoOps (placeholder)
mongo_upsertUser(userData) == << >>
mongo_getUserByEmail(email) == << >>
mongo_getAllUsers == << >>
mongo_deleteUser(userId) == <<FALSE>>
mongo_saveDocument(docData) ==
  inMemory_saveDocument(docData.userId, docData.fingerprint, docData.fileName, docData.fileSize)
mongo_getUserDocuments(userId) == inMemory_getUserDocuments(userId)
mongo_getDocumentByFingerprint(userId, fingerprint) == inMemory_getDocumentByFingerprint(userId, fingerprint)
mongo_saveChatHistory(chatData) == << >>
mongo_updateChatHistory(chatId, messages) == <<FALSE>>
mongo_getUserChatHistory(userId) == << >>
mongo_deleteChatHistory(chatId) == <<FALSE>>

\* ------------------------------------------------------------- the Router
\* The effect of one Router call: its result, the stores it called in order,
\* whether each called store gave a usable result, and the stores afterwards.
Eff(res, called, outcomes, users, docs, chats, mem) ==
  [res |-> res, called |-> called, outcomes |-> outcomes,
   users |-> users, docs |-> docs, chats |-> chats, mem |-> mem]

users_upsert(userData, fail) ==
  LET f == firebase_upsertUser(userData, fail)
      m == mongo_upsertUser(userData)
      c1 == IF UseFirebase THEN <<"firebase">> ELSE << >>
      o1 == IF UseFirebase THEN <<f.res # << >>>> ELSE << >>
      u1 == IF UseFirebase THEN f.users ELSE fbUsers
  IN IF UseFirebase /\ (f.res # << >> \/ DATABASE_PROVIDER = "firebase")
     THEN Eff(f.res, c1, o1, u1, fbDocs, fbChats, memDocs)
     ELSE IF UseMongo /\ m # << >>
     THEN Eff(m, c1 \o <<"mongodb">>, o1 \o <<TRUE>>, u1, fbDocs, fbChats, memDocs)
     ELSE Eff(<< >>, c1 \o (IF UseMongo THEN <<"mongodb">> ELSE << >>),
              o1 \o (IF UseMongo THEN <<FALSE>> ELSE << >>), u1, fbDocs, fbChats, memDocs)

users_getByEmail(email, fail) ==
  LET f == firebase_getUserByEmail(email, fail)
      m == mongo_getUserByEmail(email)
      c1 == IF UseFirebase THEN <<"firebase">> ELSE << >>
      o1 == IF UseFirebase THEN <<f # << >>>> ELSE << >>
  IN IF UseFirebase /\ (f # << >> \/ DATABASE_PROVIDER = "firebase")
     THEN Eff(f, c1, o1, fbUsers, fbDocs, fbChats, memDocs)
     ELSE IF UseMongo /\ m # << >>
     THEN Eff(m, c1 \o <<"mongodb">>, o1 \o <<TRUE>>, fbUsers, fbDocs, fbChats, memDocs)
     ELSE Eff(<< >>, c1 \o (IF UseMongo THEN <<"mongodb">> ELSE << >>),
              o1 \o (IF UseMongo THEN <<FALSE>> ELSE << >>), fbUsers, fbDocs, fbChats, memDocs)

users_getAll(fail) ==
  LET f == firebase_getAllUsers(fail)
      m == mongo_getAllUsers
      c1 == IF UseFirebase THEN <<"firebase">> ELSE << >>
      o1 == IF UseFirebase THEN <<Len(f) > 0>> ELSE << >>
  IN IF UseFirebase /\ (Len(f) > 0 \/ DATABASE_PROVIDER = "firebase")
     THEN Eff(f, c1, o1, fbUsers, fbDocs, fbChats, memDocs)
     ELSE IF UseMongo /\ Len(m) > 0
     THEN Eff(m, c1 \o <<"mongodb">>, o1 \o <<TRUE>>, fbUsers, fbDocs, fbChats, memDocs)
     ELSE Eff(<< >>, c1 \o (IF UseMongo THEN <<"mongodb">> ELSE << >>),
              o1 \o (IF UseMongo THEN <<FALSE>> ELSE << >>), fbUsers, fbDocs, fbChats, memDocs)

users_delete(userId, fail) ==
  LET f == firebase_deleteUser(userId, fail)
      m == mongo_deleteUser(userId)
      s0 == FALSE
      s1 == IF UseFirebase THEN (f.res[1] \/ s0) ELSE s0
      s2 == IF UseMongo THEN (m[1] \/ s1) ELSE s1
  IN Eff(<<s2>>,
         (IF UseFirebase THEN <<"firebase">> ELSE << >>) \o (IF UseMongo THEN <<"mongodb">> ELSE << >>),
         (IF UseFirebase THEN <<f.res[1]>> ELSE << >>) \o (IF UseMongo THEN <<m[1]>> ELSE << >>),
         IF UseFirebase THEN f.users ELSE fbUsers, fbDocs, fbChats, memDocs)

\* variant: the primary-pinned test is missing, a null result falls through
documents_save_noPin(docData, fail) ==
  LET f == firebase_saveDocument(docData, fail)
      l == inMemory_saveDocument(docData.userId, docData.fingerprint, docData.fileName, docData.fileSize)
      c1 == IF UseFirebase THEN <<"firebase">> ELSE << >>
      o1 == IF UseFirebase THEN <<f.res # << >>>> ELSE << >>
      d1 == IF UseFirebase THEN f.docs ELSE fbDocs
  IN IF UseFirebase /\ f.res # << >>
     THEN Eff(f.res, c1, o1, fbUsers, d1, fbChats, memDocs)
     ELSE IF UseMongo
     THEN Eff(l.res, c1 \o <<"mongodb", "local">>, o1 \o <<TRUE, TRUE>>, fbUsers, d1, fbChats, l.mem)
     ELSE Eff(l.res, c1 \o <<"local">>, o1 \o <<l.res # << >>>>, fbUsers, d1, fbChats, l.mem)

documents_save(docData, fail) ==
  LET f == firebase_saveDocument(docData, fail)
      m == mongo_saveDocument(docData)
      l == inMemory_saveDocument(docData.userId, docData.fingerprint, docData.fileName, docData.fileSize)
      c1 == IF UseFirebase THEN <<"firebase">> ELSE << >>
      o1 == IF UseFirebase THEN <<f.res # << >>>> ELSE << >>
      d1 == IF UseFirebase THEN f.docs ELSE fbDocs
  IN IF UseFirebase /\ (f.res # << >> \/ DATABASE_PROVIDER = "firebase")
     THEN Eff(f.res, c1, o1, fbUsers, d1, fbChats, memDocs)
     ELSE IF UseMongo /\ m.res # << >>
     THEN Eff(m.res, c1 \o <<"mongodb", "local">>, o1 \o <<TRUE, TRUE>>, fbUsers, d1, fbChats, m.mem)
     ELSE IF UseMongo
     THEN Eff(l.res, c1 \o <<"mongodb", "local", "local">>, o1 \o <<FALSE, FALSE, l.res # << >>>>,
              fbUsers, d1, fbChats, l.mem)
     ELSE Eff(l.res, c1 \o <<"local">>, o1 \o <<l.res # << >>>>, fbUsers, d1, fbChats, l.mem)

\* variant: the primary's result is returned even when it is empty
documents_getUserDocuments_noFallthrough(userId, fail) ==
  LET f == firebase_getUserDocuments(userId, fail)
      l == inMemory_getUserDocuments(userId)
  IN IF UseFirebase
     THEN Eff(f, <<"firebase">>, <<Len(f) > 0>>, fbUsers, fbDocs, fbChats, memDocs)
     ELSE IF UseMongo
     THEN Eff(l, <<"mongodb", "local">>, <<Len(l) > 0, Len(l) > 0>>, fbUsers, fbDocs, fbChats, memDocs)
     ELSE Eff(l, <<"local">>, <<Len(l) > 0>>, fbUsers, fbDocs, fbChats, memDocs)

documents_getUserDocuments(userId, fail) ==
  LET f == firebase_getUserDocuments(userId, fail)
      m == mongo_getUserDocuments(userId)
      l == inMemory_getUserDocuments(userId)
      c1 == IF UseFirebase THEN <<"firebase">> ELSE << >>
      o1 == IF UseFirebase THEN <<Len(f) > 0>> ELSE << >>
  IN IF UseFirebase /\ (Len(f) > 0 \/ DATABASE_PROVIDER = "firebase")
     THEN Eff(f, c1, o1, fbUsers, fbDocs, fbChats, memDocs)
     ELSE IF UseMongo /\ Len(m) > 0
     THEN Eff(m, c1 \o <<"mongodb", "local">>, o1 \o <<TRUE, TRUE>>, fbUsers, fbDocs, fbChats, memDocs)
     ELSE IF UseMongo
     THEN Eff(l, c1 \o <<"mongodb", "local", "local">>, o1 \o <<FALSE, FALSE, Len(l) > 0>>,
              fbUsers, fbDocs, fbChats, memDocs)
     ELSE Eff(l, c1 \o <<"local">>, o1 \o <<Len(l) > 0>>, fbUsers, fbDocs, fbChats, memDocs)

documents_getByFingerprint(userId, fingerprint, fail) ==
  LET f == firebase_getDocumentByFingerprint(userId, fingerprint, fail)
      m == mongo_getDocumentByFingerprint(userId, fingerprint)
      l == inMemory_getDocumentByFingerprint(userId, fingerprint)
      c1 == IF UseFirebase THEN <<"firebase">> ELSE << >>
      o1 == IF UseFirebase THEN <<f # << >>>> ELSE << >>
  IN IF UseFirebase /\ (f # << >> \/ DATABASE_PROVIDER = "firebase")
     THEN Eff(f, c1, o1, fbUsers, fbDocs, fbChats, memDocs)
     ELSE IF UseMongo /\ m # << >>
     THEN Eff(m, c1 \o <<"mongodb", "local">>, o1 \o <<TRUE, TRUE>>, fbUsers, fbDocs, fbChats, memDocs)
     ELSE IF UseMongo
     THEN Eff(l, c1 \o <<"mongodb", "local", "local">>, o1 \o <<FALSE, FALSE, l # << >>>>,
              fbUsers, fbDocs, fbChats, memDocs)
     ELSE Eff(l, c1 \o <<"local">>, o1 \o <<l # << >>>>, fbUsers, fbDocs, fbChats, memDocs)

chats_save(chatData, fail) ==
  LET f == firebase_saveChatHistory(chatData, fail)
      m == mongo_saveChatHistory(chatData)
      c1 == IF UseFirebase THEN <<"firebase">> ELSE << >>
      o1 == IF UseFirebase THEN <<f.res # << >>>> ELSE << >>
      h1 == IF UseFirebase THEN f.chats ELSE fbChats
  IN IF UseFirebase /\ (f.res # << >> \/ DATABASE_PROVIDER = "firebase")
     THEN Eff(f.res, c1, o1, fbUsers, fbDocs, h1, memDocs)
     ELSE IF UseMongo /\ m # << >>
     THEN Eff(m, c1 \o <<"mongodb">>, o1 \o <<TRUE>>, fbUsers, fbDocs, h1, memDocs)
     ELSE Eff(<< >>, c1 \o (IF UseMongo THEN <<"mongodb">> ELSE << >>),
              o1 \o (IF UseMongo THEN <<FALSE>> ELSE << >>), fbUsers, fbDocs, h1, memDocs)

chats_update(chatId, messages, fail) ==
  LET f == firebase_updateChatHistory(chatId, messages, fail)
      m == mongo_updateChatHistory(chatId, messages)
      s0 == FALSE
      s1 == IF UseFirebase THEN (f.res[1] \/ s0) ELSE s0
      s2 == IF UseMongo THEN (m[1] \/ s1) ELSE s1
  IN Eff(<<s2>>,
         (IF UseFirebase THEN <<"firebase">> ELSE << >>) \o (IF UseMongo THEN <<"mongodb">> ELSE << >>),
         (IF UseFirebase THEN <<f.res[1]>> ELSE << >>) \o (IF UseMongo THEN <<m[1]>> ELSE << >>),
         fbUsers, fbDocs, IF UseFirebase THEN f.chats ELSE fbChats, memDocs)

chats_getUserHistory(userId, fail) ==
  LET f == firebase_getUserChatHistory(userId, fail)
      m == mongo_getUserChatHistory(userId)
      c1 == IF UseFirebase THEN <<"firebase">> ELSE << >>
      o1 == IF UseFirebase THEN <<Len(f) > 0>> ELSE << >>
  IN IF UseFirebase /\ (Len(f) > 0 \/ DATABASE_PROVIDER = "firebase")
     THEN Eff(f, c1, o1, fbUsers, fbDocs, fbChats, memDocs)
     ELSE IF UseMongo /\ Len(m) > 0
     THEN Eff(m, c1 \o <<"mongodb">>, o1 \o <<TRUE>>, fbUsers, fbDocs, fbChats, memDocs)
     ELSE Eff(<< >>, c1 \o (IF UseMongo THEN <<"mongodb">> ELSE << >>),
              o1 \o (IF UseMongo THEN <<FALSE>> ELSE << >>), fbUsers, fbDocs, fbChats, memDocs)

\* variant: success only when every attempted store reports success
chats_delete_and(chatId, fail) ==
  LET f == firebase_deleteChatHistory(chatId, fail)
      m == mongo_deleteChatHistory(chatId)
      s1 == IF UseFirebase THEN f.res[1] ELSE TRUE
      s2 == IF UseMongo THEN (m[1] /\ s1) ELSE s1
  IN Eff(<<s2 /\ (UseFirebase \/ UseMongo)>>,
         (IF UseFirebase THEN <<"firebase">> ELSE << >>) \o (IF UseMongo THEN <<"mongodb">> ELSE << >>),
         (IF UseFirebase THEN <<f.res[1]>> ELSE << >>) \o (IF UseMongo THEN <<m[1]>> ELSE << >>),
         fbUsers, fbDocs, IF UseFirebase THEN f.chats ELSE fbChats, memDocs)

\* variant: returns after the first store that reports success
chats_delete_shortCircuit(chatId, fail) ==
  LET f == firebase_deleteChatHistory(chatId, fail)
      m == mongo_deleteChatHistory(chatId)
  IN IF UseFirebase /\ f.res[1]
     THEN Eff(<<TRUE>>, <<"firebase">>, <<TRUE>>, fbUsers, fbDocs, f.chats, memDocs)
     ELSE Eff(<<UseMongo /\ m[1]>>,
              (IF UseFirebase THEN <<"firebase">> ELSE << >>) \o (IF UseMongo THEN <<"mongodb">> ELSE << >>),
              (IF UseFirebase THEN <<FALSE>> ELSE << >>) \o (IF UseMongo THEN <<m[1]>> ELSE << >>),
              fbUsers, fbDocs, fbChats, memDocs)

chats_delete(chatId, fail) ==
  LET f == firebase_deleteChatHistory(chatId, fail)
      m == mongo_deleteChatHistory(chatId)
      s0 == FALSE
      s1 == IF UseFirebase THEN (f.res[1] \/ s0) ELSE s0
      s2 == IF UseMongo THEN (m[1] \/ s1) ELSE s1
  IN Eff(<<s2>>,
         (IF UseFirebase THEN <<"firebase">> ELSE << >>) \o (IF UseMongo THEN <<"mongodb">> ELSE << >>),
         (IF UseFirebase THEN <<f.res[1]>> ELSE << >>) \o (IF UseMongo THEN <<m[1]>> ELSE << >>),
         fbUsers, fbDocs, IF UseFirebase THEN f.chats ELSE fbChats, memDocs)

\* unsubscribe || (() => {}) under the DATA_PROVIDERS.firebase test alone
chats_subscribeToUserHistory(userId, fail) ==
  LET unsubscribe == firebase_subscribeToUserChatHistory(userId, fail) IN
  IF fbEnabled
  THEN Eff(IF unsubscribe # << >> THEN unsubscribe ELSE <<"() => {}">>,
           <<"firebase">>, <<unsubscribe # << >>>>, fbUsers, fbDocs, fbChats, memDocs)
  ELSE Eff(<< >>, << >>, << >>, fbUsers, fbDocs, fbChats, memDocs)

\* One Router call, start to return; the caller awaits it before the next.
Call(op, arg, fail, e) ==
  /\ (e.users # fbUsers \/ e.docs # fbDocs \/ e.chats # fbChats \/ e.mem # memDocs) => now < MaxClock
  /\ fbUsers' = e.users
  /\ fbDocs' = e.docs
  /\ fbChats' = e.chats
  /\ memDocs' = e.mem
  /\ now' = IF e.users # fbUsers \/ e.docs # fbDocs \/ e.chats # fbChats \/ e.mem # memDocs
            THEN now + 1 ELSE now
  /\ nextId' = IF \/ Cardinality(e.users) > Cardinality(fbUsers)
                  \/ Cardinality(e.docs) > Cardinality(fbDocs)
                  \/ Cardinality(e.chats) > Cardinality(fbChats)
                  \/ Cardinality(e.mem) > Cardinality(memDocs)
               THEN nextId + 1 ELSE nextId
  /\ last' = [op |-> op, arg |-> arg, fail |-> fail, res |-> e.res,
              called |-> e.called, outcomes |-> e.outcomes]
  /\ UNCHANGED <<DATABASE_PROVIDER, fbEnabled, fbAvail, pc, req, snap, answerVars, summarizeVars>>

UsersUpsert == \E d \in UserInputs, fail \in Fails : Call("users.upsert", d, fail, users_upsert(d, fail))
UsersGetByEmail == \E u \in Users, fail \in Fails : Call("users.getByEmail", u, fail, users_getByEmail(u, fail))
UsersGetAll == \E fail \in Fails : Call("users.getAll", "", fail, users_getAll(fail))
UsersDelete == \E i \in Ids, fail \in Fails : Call("users.delete", i, fail, users_delete(i, fail))
DocumentsSave == \E d \in DocInputs, fail \in Fails : Call("documents.save", d, fail, documents_save(d, fail))
DocumentsGetUserDocuments ==
  \E u \in Users, fail \in Fails :
    Call("documents.getUserDocuments", u, fail, documents_getUserDocuments(u, fail))
DocumentsGetByFingerprint ==
  \E u \in Users, f \in Fingerprints, fail \in Fails :
    Call("documents.getByFingerprint", <<u, f>>, fail, documents_getByFingerprint(u, f, fail))
ChatsSave == \E d \in ChatInputs, fail \in Fails : Call("chats.save", d, fail, chats_save(d, fail))
ChatsUpdate ==
  \E i \in Ids, m \in {MessageLists[2]}, fail \in Fails :
    Call("chats.update", <<i, m>>, fail, chats_update(i, m, fail))
ChatsGetUserHistory ==
  \E u \in Users, fail \in Fails : Call("chats.getUserHistory", u, fail, chats_getUserHistory(u, fail))
ChatsDelete == \E i \in Ids, fail \in Fails : Call("chats.delete", i, fail, chats_delete(i, fail))

ChatsSubscribeToUserHistory ==
  \E u \in Users, fail \in (IF isAvailable THEN BOOLEAN ELSE {FALSE}) :
    Call("chats.subscribeToUserHistory", u, fail, chats_subscribeToUserHistory(u, fail))

NoCall == [op |-> "none", arg |-> "", fail |-> FALSE, res |-> << >>, called |-> << >>, outcomes |-> << >>]

StoreIdle ==
  /\ pc = [p \in 1..NumProcs |-> "idle"]
  /\ req = [p \in 1..NumProcs |-> [op |-> "none"]]
  /\ snap = [p \in 1..NumProcs |-> {}]

NoRequest == [route |-> "none"]
NoResponse == [status |-> 0]

SummarizeIdle ==
  /\ spc = "idle"
  /\ schunks = << >>
  /\ sfetch = << >>
  /\ summaries = << >>
  /\ fullText = << >>
  /\ maxChunkLength = 0

AnswerIdle ==
  /\ SummarizeIdle
  /\ mongoDocs = {}
  /\ history = [u \in Users |-> << >>]
  /\ apc = [p \in 1..NumRequests |-> "idle"]
  /\ areq = [p \in 1..NumRequests |-> NoRequest]
  /\ resp = [p \in 1..NumRequests |-> NoResponse]

Init ==
  /\ DATABASE_PROVIDER \in Modes
  /\ fbEnabled \in BOOLEAN
  /\ fbAvail \in BOOLEAN
  /\ fbAvail => fbEnabled
  /\ fbUsers = {}
  /\ fbDocs = {}
  /\ fbChats = {}
  /\ memDocs = {}
  /\ now = 0
  /\ nextId = 1
  /\ last = NoCall
  /\ StoreIdle
  /\ AnswerIdle

Next ==
  \/ UsersUpsert
  \/ UsersGetByEmail
  \/ UsersGetAll
  \/ UsersDelete
  \/ DocumentsSave
  \/ DocumentsGetUserDocuments
  \/ DocumentsGetByFingerprint
  \/ ChatsSave
  \/ ChatsUpdate
  \/ ChatsGetUserHistory
  \/ ChatsDelete
  \/ ChatsSubscribeToUserHistory

vars == <<DATABASE_PROVIDER, fbEnabled, fbAvail, fbUsers, fbDocs, fbChats, memDocs, now, nextId, last, pc, req, snap,
          mongoDocs, history, apc, areq, resp, spc, schunks, sfetch, summaries,
          fullText, maxChunkLength>>

Spec == Init /\ [][Next]_vars

\* ======================================================= Router: claims
\* the first usable result among the Primary (when active) and the Secondary
\* (when active), else the given default
FirstUsable(p, s, dflt) ==
  IF UseFirebase /\ p # << >> THEN p ELSE IF UseMongo /\ s # << >> THEN s ELSE dflt

\* C1: a document read returns the result of the first active provider, in the
\* order Primary then Secondary, that yields a non-empty result, and the Local
\* Store's result when none does; a user or chat read returns null / the empty
\* list in that last case.
C1_ReadFallthrough ==
  /\ last.op = "documents.getUserDocuments" =>
       last.res = FirstUsable(firebase_getUserDocuments(last.arg, last.fail),
                              mongo_getUserDocuments(last.arg),
                              inMemory_getUserDocuments(last.arg))
  /\ last.op = "documents.getByFingerprint" =>
       last.res = FirstUsable(firebase_getDocumentByFingerprint(last.arg[1], last.arg[2], last.fail),
                              mongo_getDocumentByFingerprint(last.arg[1], last.arg[2]),
                              inMemory_getDocumentByFingerprint(last.arg[1], last.arg[2]))
  /\ last.op = "users.getByEmail" =>
       last.res = FirstUsable(firebase_getUserByEmail(last.arg, last.fail), mongo_getUserByEmail(last.arg), << >>)
  /\ last.op = "users.getAll" =>
       last.res = FirstUsable(firebase_getAllUsers(last.fail), mongo_getAllUsers, << >>)
  /\ last.op = "chats.getUserHistory" =>
       last.res = FirstUsable(firebase_getUserChatHistory(last.arg, last.fail),
                              mongo_getUserChatHistory(last.arg), << >>)

\* a getUserDocuments in dual mode that found nothing in the Primary and
\* returned the Secondary's non-empty result
C1_Witness ==
  /\ last.op = "documents.getUserDocuments"
  /\ DATABASE_PROVIDER = "both" /\ fbEnabled
  /\ Len(last.called) > 1 /\ last.called[1] = "firebase" /\ ~last.outcomes[1]
  /\ last.res # << >>

PrimaryPinned == DATABASE_PROVIDER = "firebase" /\ fbEnabled
PrimaryFailed == ~isAvailable \/ last.fail

\* C2: in primary-only mode with the Primary enabled every read and every
\* upsert-style write returns the Primary's result, null or empty included,
\* only the Primary is called and the Local Store is never modified.
C2_PrimaryPinned ==
  PrimaryPinned =>
    /\ memDocs = {}
    /\ last.op \in {"users.upsert", "users.getByEmail", "users.getAll", "documents.save",
                    "documents.getUserDocuments", "documents.getByFingerprint",
                    "chats.save", "chats.getUserHistory"} => last.called = <<"firebase">>
    /\ last.op = "users.getByEmail" => last.res = firebase_getUserByEmail(last.arg, last.fail)
    /\ last.op = "users.getAll" => last.res = firebase_getAllUsers(last.fail)
    /\ last.op = "documents.getUserDocuments" => last.res = firebase_getUserDocuments(last.arg, last.fail)
    /\ last.op = "documents.getByFingerprint" =>
         last.res = firebase_getDocumentByFingerprint(last.arg[1], last.arg[2], last.fail)
    /\ last.op = "chats.getUserHistory" => last.res = firebase_getUserChatHistory(last.arg, last.fail)
    /\ last.op = "users.upsert" =>
         IF PrimaryFailed THEN last.res = << >>
         ELSE /\ Len(last.res) = 1
              /\ \E r \in fbUsers : r.id = last.res[1].id /\ r.email = last.arg.email /\ r.name = last.arg.name
    /\ last.op = "documents.save" =>
         IF PrimaryFailed THEN last.res = << >>
         ELSE /\ Len(last.res) = 1
              /\ \E r \in fbDocs : /\ r.id = last.res[1].id
                                   /\ r.userId = last.arg.userId
                                   /\ r.fingerprint = last.arg.fingerprint
    /\ last.op = "chats.save" =>
         IF PrimaryFailed THEN last.res = << >>
         ELSE /\ Len(last.res) = 1
              /\ \E r \in fbChats : r.id = last.res[1].id /\ r.messages = last.arg.messages

\* a pinned documents.save whose Primary call failed returned null
C2_Witness ==
  /\ PrimaryPinned /\ isAvailable
  /\ last.op = "documents.save" /\ last.fail /\ last.res = << >>

C4_DeleteReachesAll ==
  (DATABASE_PROVIDER = "both" /\ fbEnabled /\ mongoEnabled /\ last.op = "chats.delete") =>
    /\ last.called = <<"firebase", "mongodb">>
    /\ last.outcomes[1] => ~(\E r \in fbChats : r.id = last.arg)

\* a dual-mode chat delete that went on to the Secondary after the Primary
\* had already succeeded
C4_Witness ==
  /\ DATABASE_PROVIDER = "both"
  /\ last.op = "chats.delete"
  /\ Len(last.called) = 2 /\ last.called[2] = "mongodb"
  /\ last.outcomes[1]

\* C7: non-overlapping upsertUser calls on the Firestore store: a call for an
\* email without a record inserts exactly one record with createdAt and
\* updatedAt both set to the write time; a call for an email with a record
\* updates that record in place, advances updatedAt, keeps createdAt and
\* inserts nothing; so no email ever has more than one record.
C7_UpsertMerge ==
  /\ [][(last'.op = "users.upsert" /\ last'.res # << >>) =>
          LET d == last'.arg
              old == {r \in fbUsers : r.email = d.email}
          IN IF old = {}
             THEN \E r \in fbUsers' :
                    /\ r \notin fbUsers
                    /\ fbUsers' = fbUsers \cup {r}
                    /\ r.email = d.email /\ r.name = d.name
                    /\ now' > now
                    /\ r.createdAt = now' /\ r.updatedAt = now'
             ELSE \E o \in old, r \in fbUsers' :
                    /\ fbUsers' = (fbUsers \ {o}) \cup {r}
                    /\ Cardinality(fbUsers') = Cardinality(fbUsers)
                    /\ r.id = o.id
                    /\ r.email = d.email /\ r.name = d.name
                    /\ r.createdAt = o.createdAt
                    /\ r.updatedAt > o.updatedAt]_vars
  /\ [](\A e \in Users : Cardinality({r \in fbUsers : r.email = e}) <= 1)

\* an upsert that found the email's record and updated it
C7_Witness ==
  /\ last.op = "users.upsert" /\ last.res # << >>
  /\ \E r \in fbUsers : r.email = last.arg.email /\ r.updatedAt > r.createdAt /\ r.name = last.arg.name

\* ==================================== the Firestore store under concurrency
\* Requests call the provider store directly and overlap: every await of an
\* operation (getDocs, then updateDoc / addDoc) is a step of its own.  Here
\* `last` is the last provider-store call that returned.
Procs == 1..NumProcs
StoreUserInputs == [email : Users, name : {"n1"}]
StoreDocInputs == {Doc("u1", "f1", FileA), Doc("u1", "f1", FileB), Doc("u1", "f2", FileA)}
NoReq == [op |-> "none"]

Returned(op, arg, res) ==
  [op |-> op, arg |-> arg, fail |-> FALSE, res |-> res, called |-> <<"firebase">>, outcomes |-> <<res # << >>>>]

\* upsertUser / saveDocument up to the first await; isAvailable() is tested first
StartUpsertUser(p) ==
  \E d \in StoreUserInputs :
    /\ pc[p] = "idle"
    /\ IF isAvailable
       THEN /\ pc' = [pc EXCEPT ![p] = "query"]
            /\ req' = [req EXCEPT ![p] = [op |-> "upsertUser", data |-> d]]
            /\ last' = last
       ELSE /\ pc' = pc
            /\ req' = req
            /\ last' = Returned("upsertUser", d, << >>)
    /\ UNCHANGED <<DATABASE_PROVIDER, fbEnabled, fbAvail, fbUsers, fbDocs, fbChats, memDocs, now, nextId, snap, answerVars, summarizeVars>>

StartSaveDocument(p) ==
  \E d \in StoreDocInputs :
    /\ pc[p] = "idle"
    /\ IF isAvailable
       THEN /\ pc' = [pc EXCEPT ![p] = "query"]
            /\ req' = [req EXCEPT ![p] = [op |-> "saveDocument", data |-> d]]
            /\ last' = last
       ELSE /\ pc' = pc
            /\ req' = req
            /\ last' = Returned("saveDocument", d, << >>)
    /\ UNCHANGED <<DATABASE_PROVIDER, fbEnabled, fbAvail, fbUsers, fbDocs, fbChats, memDocs, now, nextId, snap, answerVars, summarizeVars>>

\* await getDocs(query) returns the records matching now
QueryStep(p) ==
  /\ pc[p] = "query"
  /\ snap' = [snap EXCEPT ![p] =
       IF req[p].op = "upsertUser" THEN UserQuery(req[p].data.email)
       ELSE DocQuery(req[p].data.userId, req[p].data.fingerprint)]
  /\ pc' = [pc EXCEPT ![p] = "write"]
  /\ UNCHANGED <<routerVars, req, answerVars, summarizeVars>>

\* await updateDoc / addDoc commits, and the operation returns
WriteUser(p) ==
  /\ pc[p] = "write" /\ req[p].op = "upsertUser"
  /\ now < MaxClock
  /\ LET w == upsertUser_write(snap[p], req[p].data) IN
       /\ fbUsers' = w.users
       /\ now' = IF w.users # fbUsers THEN now + 1 ELSE now
       /\ nextId' = IF Cardinality(w.users) > Cardinality(fbUsers) THEN nextId + 1 ELSE nextId
       /\ last' = Returned("upsertUser", req[p].data, w.res)
  /\ pc' = [pc EXCEPT ![p] = "idle"]
  /\ req' = [req EXCEPT ![p] = NoReq]
  /\ snap' = [snap EXCEPT ![p] = {}]
  /\ UNCHANGED <<DATABASE_PROVIDER, fbEnabled, fbAvail, fbDocs, fbChats, memDocs, answerVars, summarizeVars>>

WriteDocument(p) ==
  /\ pc[p] = "write" /\ req[p].op = "saveDocument"
  /\ now < MaxClock
  /\ LET w == saveDocument_write(snap[p], req[p].data) IN
       /\ fbDocs' = w.docs
       /\ now' = IF w.docs # fbDocs THEN now + 1 ELSE now
       /\ nextId' = IF Cardinality(w.docs) > Cardinality(fbDocs) THEN nextId + 1 ELSE nextId
       /\ last' = Returned("saveDocument", req[p].data, w.res)
  /\ pc' = [pc EXCEPT ![p] = "idle"]
  /\ req' = [req EXCEPT ![p] = NoReq]
  /\ snap' = [snap EXCEPT ![p] = {}]
  /\ UNCHANGED <<DATABASE_PROVIDER, fbEnabled, fbAvail, fbUsers, fbChats, memDocs, answerVars, summarizeVars>>

\* a Firestore request throws: the catch block returns null, nothing is written
Throw(p) ==
  /\ pc[p] \in {"query", "write"}
  /\ pc' = [pc EXCEPT ![p] = "idle"]
  /\ last' = Returned(req[p].op, req[p].data, << >>)
  /\ req' = [req EXCEPT ![p] = NoReq]
  /\ snap' = [snap EXCEPT ![p] = {}]
  /\ UNCHANGED <<DATABASE_PROVIDER, fbEnabled, fbAvail, fbUsers, fbDocs, fbChats, memDocs, now, nextId, answerVars, summarizeVars>>

\* deleteUser has a single await
DeleteUser(p) ==
  \E i \in Ids :
    /\ pc[p] = "idle"
    /\ isAvailable
    /\ LET w == firebase_deleteUser(i, FALSE) IN
         /\ fbUsers' = w.users
         /\ last' = Returned("deleteUser", i, w.res)
    /\ UNCHANGED <<DATABASE_PROVIDER, fbEnabled, fbAvail, fbDocs, fbChats, memDocs, now, nextId, pc, req, snap, answerVars, summarizeVars>>

InitStore ==
  /\ DATABASE_PROVIDER = "firebase"
  /\ fbEnabled = TRUE
  /\ fbAvail \in BOOLEAN
  /\ fbUsers = {}
  /\ fbDocs = {}
  /\ fbChats = {}
  /\ memDocs = {}
  /\ now = 0
  /\ nextId = 1
  /\ last = NoCall
  /\ StoreIdle
  /\ AnswerIdle

NextStore ==
  \E p \in Procs :
    \/ StartUpsertUser(p)
    \/ StartSaveDocument(p)
    \/ QueryStep(p)
    \/ WriteUser(p)
    \/ WriteDocument(p)
    \/ Throw(p)
    \/ DeleteUser(p)

SpecStore == InitStore /\ [][NextStore]_vars

\* C5: a saveDocument whose (owner, fingerprint) pair is already stored creates
\* no record and changes only lastAccessedAt of the stored record, which does
\* not decrease; every other field of every record stays as it was, whatever
\* file name or size the call supplies.
C5_IdempotentSave ==
  [][\A p \in Procs :
       (/\ pc[p] = "write" /\ req[p].op = "saveDocument" /\ snap[p] # {}
        /\ pc'[p] = "idle" /\ last'.res # << >>)
       => /\ {r.id : r \in fbDocs'} = {r.id : r \in fbDocs}
          /\ Cardinality(fbDocs') = Cardinality(fbDocs)
          /\ \A r \in fbDocs : \E r2 \in fbDocs' :
               /\ r2.id = r.id
               /\ r2.userId = r.userId /\ r2.fingerprint = r.fingerprint
               /\ r2.fileName = r.fileName /\ r2.fileSize = r.fileSize
               /\ r2.uploadedAt = r.uploadedAt
               /\ r2.lastAccessedAt >= r.lastAccessedAt
          /\ \E r2 \in fbDocs' : r2.id = MinId(snap[p]).id /\ r2.lastAccessedAt = now' /\ now' > now]_vars

\* a second save of a stored pair, made with another file name, has returned
C5_Witness ==
  /\ last.op = "saveDocument" /\ last.res # << >>
  /\ \E r \in fbDocs :
       /\ r.userId = last.arg.userId /\ r.fingerprint = last.arg.fingerprint
       /\ r.fileName # last.arg.fileName
       /\ r.lastAccessedAt > r.uploadedAt

\* C6 (as claimed): at most one document record per (owner, fingerprint), also
\* when saveDocument calls for the same pair overlap.
C6_DocumentUnique ==
  \A u \in Users, f \in Fingerprints : Cardinality(DocQuery(u, f)) <= 1

\* C8: the lookup and the insert of upsertUser are not serialized: a call that
\* observed 'not found' inserts a record whatever the store holds by then, so
\* overlapping first sign-ins can leave two records for one email.
C8_UpsertRace ==
  [][\A p \in Procs :
       (/\ pc[p] = "write" /\ req[p].op = "upsertUser" /\ snap[p] = {}
        /\ pc'[p] = "idle" /\ last'.res # << >>)
       => /\ Cardinality(fbUsers') = Cardinality(fbUsers) + 1
          /\ \E r \in fbUsers' \ fbUsers : r.email = req[p].data.email /\ r.createdAt = now']_vars

\* two user records for one email
C8_Witness ==
  \E r1 \in fbUsers, r2 \in fbUsers : r1.id # r2.id /\ r1.email = r2.email

\* C18 (as claimed): subscribeToUserHistory returns null whenever the Primary
\* Store cannot provide a live subscription (flag off, Firestore not available,
\* setup throws) and a non-null handle only when a live subscription was
\* established on the Primary Store.
LiveSubscription == fbEnabled /\ isAvailable /\ ~last.fail

C18_NullSubscription ==
  last.op = "chats.subscribeToUserHistory" => (last.res # << >> <=> LiveSubscription)

\* C19 (as claimed): no Router operation calls a provider store whose enabled
\* flag is false or which the operating mode excludes.
CalledStores == {last.called[i] : i \in 1..Len(last.called)}

C19_ProviderGating ==
  /\ "firebase" \in CalledStores => fbEnabled /\ DATABASE_PROVIDER \in {"firebase", "both"}
  /\ "mongodb" \in CalledStores => mongoEnabled /\ DATABASE_PROVIDER \in {"mongodb", "both"}

\* C20 (as claimed): in 'both' mode with both stores enabled, each save through
\* the Router is attempted on the Primary Store and on the Secondary Store, and
\* the written record is returned when at least one attempt succeeded.
SaveOps == {"users.upsert", "documents.save", "chats.save"}

C20_DualWrite ==
  (last.op \in SaveOps /\ DATABASE_PROVIDER = "both" /\ fbEnabled /\ mongoEnabled) =>
    /\ {"firebase", "mongodb"} \subseteq CalledStores
    /\ (\E i \in 1..Len(last.outcomes) : last.outcomes[i]) => last.res # << >>

\* ================================================================== text
\* A string is a sequence of characters (one-character strings).  A fixed
\* literal of the source that the model never looks into is a single element.
Terminators == {".", "!", "?"}
Whitespace == {" ", "\n"}

UpperCase == <<"A", "B", "C", "D", "E", "F", "G", "H", "I", "J", "K", "L", "M",
               "N", "O", "P", "Q", "R", "S", "T", "U", "V", "W", "X", "Y", "Z">>
LowerCase == <<"a", "b", "c", "d", "e", "f", "g", "h", "i", "j", "k", "l", "m",
               "n", "o", "p", "q", "r", "s", "t", "u", "v", "w", "x", "y", "z">>

toLowerCaseChar(c) ==
  IF \E k \in 1..Len(UpperCase) : UpperCase[k] = c
  THEN LowerCase[CHOOSE k \in 1..Len(UpperCase) : UpperCase[k] = c]
  ELSE c

toLowerCase(s) == [i \in 1..Len(s) |-> toLowerCaseChar(s[i])]

RECURSIVE trimStart(_)
trimStart(s) == IF s # << >> /\ s[1] \in Whitespace THEN trimStart(Tail(s)) ELSE s

RECURSIVE trimEnd(_)
trimEnd(s) == IF s # << >> /\ s[Len(s)] \in Whitespace THEN trimEnd(SubSeq(s, 1, Len(s) - 1)) ELSE s

trim(s) == trimEnd(trimStart(s))

\* String.prototype.split(/[C]+/): cut at every maximal run of characters of C
\* (the run nearest to the middle first, then both sides)
RECURSIVE splitRuns(_, _)
splitRuns(s, C) ==
  IF \A i \in 1..Len(s) : s[i] \notin C THEN <<s>>
  ELSE LET mid == (Len(s) + 1) \div 2
           Dist(k) == IF k < mid THEN mid - k ELSE k - mid
           m == CHOOSE k \in 1..Len(s) :
                  s[k] \in C /\ \A j \in 1..Len(s) : s[j] \in C => Dist(k) <= Dist(j)
           a == CHOOSE k \in 1..m : (\A j \in k..m : s[j] \in C) /\ (k > 1 => s[k - 1] \notin C)
           b == CHOOSE k \in m..Len(s) : (\A j \in m..k : s[j] \in C) /\ (k < Len(s) => s[k + 1] \notin C)
       IN splitRuns(SubSeq(s, 1, a - 1), C) \o splitRuns(SubSeq(s, b + 1, Len(s)), C)

\* String.prototype.includes
includes(s, w) == \E i \in 1..(Len(s) - Len(w) + 1) : SubSeq(s, i, i + Len(w) - 1) = w

\* String.prototype.split(sep) for a literal separator
RECURSIVE split(_, _)
split(s, sep) ==
  IF ~includes(s, sep) THEN <<s>>
  ELSE LET i == CHOOSE k \in 1..(Len(s) - Len(sep) + 1) :
                  /\ SubSeq(s, k, k + Len(sep) - 1) = sep
                  /\ \A j \in 1..(k - 1) : SubSeq(s, j, j + Len(sep) - 1) # sep
       IN <<SubSeq(s, 1, i - 1)>> \o split(SubSeq(s, i + Len(sep), Len(s)), sep)

\* Array.prototype.join
RECURSIVE join(_, _)
join(list, sep) ==
  IF list = << >> THEN << >>
  ELSE IF Len(list) = 1 THEN list[1]
  ELSE LET h == Len(list) \div 2
       IN join(SubSeq(list, 1, h), sep) \o sep \o join(SubSeq(list, h + 1, Len(list)), sep)

\* Array.prototype.sort((a, b) => b.score - a.score): stable, descending
RECURSIVE sortByScoreDesc(_)
sortByScoreDesc(list) ==
  IF list = << >> THEN << >>
  ELSE LET i == CHOOSE k \in 1..Len(list) :
                  /\ \A j \in 1..Len(list) : list[j].score <= list[k].score
                  /\ \A j \in 1..(k - 1) : list[j].score < list[k].score
       IN <<list[i]>> \o sortByScoreDesc(SubSeq(list, 1, i - 1) \o SubSeq(list, i + 1, Len(list)))

Min(a, b) == IF a < b THEN a ELSE b

\* ------------------------------------------------ question-answer fallback
StopWords == {<<"w", "h", "a", "t">>, <<"w", "h", "o">>, <<"w", "h", "e", "n">>, <<"w", "h", "e", "r", "e">>,
              <<"w", "h", "y">>, <<"h", "o", "w">>, <<"t", "h", "e">>, <<"a", "n", "d">>,
              <<"t", "h", "i", "s">>, <<"t", "h", "a", "t">>}
NoMatchPrefix == <<"I couldn't find a specific answer to this question in the document. Here are some key excerpts that might be helpful:", "\n", "\n">>
MatchPrefix == <<"Based on the document, I found this information that answers your question:", "\n", "\n">>
NonBlank(x) == Len(trim(x)) > 0
IsQuestionWord(w) == Len(w) > 3 /\ w \notin StopWords

\* Array.prototype.filter is SelectSeq
generateExtractiveAnswer(documentContent, question) ==
  LET sentences == SelectSeq(splitRuns(documentContent, Terminators), NonBlank)
      questionWords == SelectSeq(splitRuns(toLowerCase(question), Whitespace), IsQuestionWord)
      scoredSentences ==
        [i \in 1..Len(sentences) |->
           [sentence |-> sentences[i],
            score |-> Cardinality({k \in 1..Len(questionWords) :
                                     includes(toLowerCase(sentences[i]), questionWords[k])})]]
      sorted == sortByScoreDesc(scoredSentences)
      topSentences == [i \in 1..Min(3, Len(sorted)) |-> trim(sorted[i].sentence)]
  IN IF Len(topSentences) = 0
     THEN NoMatchPrefix
     ELSE MatchPrefix \o join(topSentences, <<"\n", "\n">>)

\* ===================================================== the answer routes
\* POST /api/question-answer and POST /api/qa; every request is handled once,
\* by its own invocation of the handler.  An optional value of the
\* request body is << >> when absent and <<v>> when present; a question is a
\* string, empty when absent (both are falsy).
Requests == 1..NumRequests
DocText == <<"T", "a", "x", ".", " ", "F", "i", "n", "e", " ", "d", "u", "e", "!">>
Question1 == <<"W", "h", "a", "t", " ", "f", "i", "n", "e">>
QuestionAll == <<"a", "l", "l">>
RemoteAnswer1 == <<"remote answer 1">>
RemoteAnswer2 == <<"remote answer 2">>
BulkQuestion1 == <<"default question 1">>
BulkQuestion2 == <<"default question 2">>
FallbackAnswerPrefix == <<"[Fallback Answer] ">>
BulkAnswers == {<< >>,
                <<[question |-> BulkQuestion1, answer |-> RemoteAnswer1]>>,
                <<[question |-> BulkQuestion1, answer |-> RemoteAnswer1],
                  [question |-> BulkQuestion2, answer |-> RemoteAnswer2]>>}
StoredDocs == {[userId |-> "u1", fingerprint |-> "f1", content |-> DocText]}

Body(route, question, documentContent, fingerprint, userId) ==
  [route |-> route, question |-> question, documentContent |-> documentContent,
   fingerprint |-> fingerprint, userId |-> userId]

QuestionAnswerInputs ==
  {Body("question-answer", << >>, <<DocText>>, << >>, <<"u1">>),
   Body("question-answer", Question1, <<DocText>>, << >>, <<"u1">>),
   Body("question-answer", Question1, << >>, <<"f1">>, <<"u1">>),
   Body("question-answer", Question1, << >>, <<"f1">>, <<"u2">>),
   Body("question-answer", Question1, << >>, <<"f2">>, <<"u1">>),
   Body("question-answer", Question1, << >>, << >>, <<"u1">>),
   Body("question-answer", Question1, <<(<< >>)>>, <<"f1">>, <<"u1">>),
   Body("question-answer", QuestionAll, <<DocText>>, << >>, <<"u1">>),
   Body("question-answer", QuestionAll, << >>, <<"f1">>, <<"u1">>)}

QaInputs ==
  {Body("qa", << >>, << >>, <<"f1">>, <<"u1">>),
   Body("qa", Question1, << >>, <<"f1">>, <<"u1">>),
   Body("qa", Question1, << >>, <<"f1">>, << >>),
   Body("qa", Question1, << >>, << >>, <<"u1">>)}

\* JavaScript truthiness of an optional string
Truthy(opt) == opt # << >> /\ opt[1] # << >>

Locals(body) ==
  [route |-> body.route, question |-> body.question, documentContent |-> body.documentContent,
   fingerprint |-> body.fingerprint, userId |-> body.userId,
   actual |-> << >>, remoteFailed |-> FALSE, isFallback |-> FALSE, sent |-> << >>,
   answers |-> << >>, pairs |-> << >>,
   lookup |-> "none", remoteCalls |-> 0, saved |-> 0]

Response(status, kind, answer) == [status |-> status, kind |-> kind, answer |-> answer]

\* the response of a handler whose history saves are over
FinalResponse(r) ==
  IF r.route = "qa" THEN Response(200, "answer", r.answers[1].answer)
  ELSE IF r.isFallback THEN Response(200, "fallback", r.answers[1].answer)
  ELSE IF r.question = QuestionAll THEN Response(200, "answers", r.answers)
  ELSE Response(200, "answer", r.answers[1].answer)

Finish(p, r, response) ==
  /\ apc' = [apc EXCEPT ![p] = "done"]
  /\ areq' = [areq EXCEPT ![p] = r]
  /\ resp' = [resp EXCEPT ![p] = response]

Goto(p, r, label) ==
  /\ apc' = [apc EXCEPT ![p] = label]
  /\ areq' = [areq EXCEPT ![p] = r]
  /\ resp' = [resp EXCEPT ![p] = NoResponse]

\* go on to save the pairs of r.pairs, or respond when there is nothing to save
SaveOrFinish(p, r) ==
  IF r.pairs # << >> /\ r.userId # << >>
  THEN Goto(p, r, "saveQuestion")
  ELSE Finish(p, [r EXCEPT !.pairs = << >>], FinalResponse(r))

\* question-answer/route.ts POST, up to the first await after request.json()
QuestionAnswerReceive(p) ==
  \E body \in QuestionAnswerInputs :
    /\ apc[p] = "idle"
    /\ LET r == Locals(body) IN
       IF body.question = << >>
       THEN Finish(p, r, Response(400, "error", <<"Question is required">>))
       ELSE IF ~Truthy(body.documentContent) /\ body.fingerprint # << >>
       THEN Goto(p, r, "lookup")
       ELSE IF ~Truthy(body.documentContent)
       THEN Finish(p, r, Response(200, "notEnough", <<"Please upload a document first.">>))
       ELSE Goto(p, [r EXCEPT !.actual = body.documentContent], "remote")
    /\ UNCHANGED <<routerVars, storeVars, summarizeVars, mongoDocs, history>>

\* variant: a lookup that finds nothing goes on to the remote call
QuestionAnswerLookup_noCheck(p) ==
  /\ apc[p] = "lookup" /\ areq[p].route = "question-answer"
  /\ LET r == areq[p]
         found == {d \in mongoDocs : d.fingerprint = r.fingerprint[1]}
     IN \/ Finish(p, [r EXCEPT !.lookup = "error"],
                   Response(200, "retrievalError", <<"Sorry, there was an error retrieving the document.">>))
        \/ /\ found = {} \/ \E d \in found : d.content = << >>
           /\ Goto(p, [r EXCEPT !.lookup = "missing"], "remote")
        \/ \E d \in found :
             /\ d.content # << >>
             /\ Goto(p, [r EXCEPT !.actual = <<d.content>>, !.lookup = "found"], "remote")
  /\ UNCHANGED <<routerVars, storeVars, summarizeVars, mongoDocs, history>>

\* db.collection('documents').findOne({ fingerprint })
QuestionAnswerLookup(p) ==
  /\ apc[p] = "lookup" /\ areq[p].route = "question-answer"
  /\ LET r == areq[p]
         found == {d \in mongoDocs : d.fingerprint = r.fingerprint[1]}
     IN \/ Finish(p, [r EXCEPT !.lookup = "error"],
                   Response(200, "retrievalError", <<"Sorry, there was an error retrieving the document.">>))
        \/ /\ found = {} \/ \E d \in found : d.content = << >>
           /\ Finish(p, [r EXCEPT !.lookup = "missing"],
                     Response(200, "notEnough", <<"The document content could not be found.">>))
        \/ \E d \in found :
             /\ d.content # << >>
             /\ Goto(p, [r EXCEPT !.actual = <<d.content>>, !.lookup = "found"], "remote")
  /\ UNCHANGED <<routerVars, storeVars, summarizeVars, mongoDocs, history>>

\* the catch (qaError) block of question-answer/route.ts
QuestionAnswerFallback(p, r) ==
  IF r.documentContent = << >>
  THEN Finish(p, [r EXCEPT !.remoteFailed = TRUE],
              Response(500, "error", <<"Failed to process the question with custom model">>))
  ELSE LET answer == generateExtractiveAnswer(r.documentContent[1], r.question)
           qa == <<[question |-> r.question, answer |-> answer]>>
       IN SaveOrFinish(p, [r EXCEPT !.remoteFailed = TRUE, !.isFallback = TRUE, !.answers = qa, !.pairs = qa])

\* fetch(QA_SERVER_URL/answer) or fetch(QA_SERVER_URL/answer_bulk)
QuestionAnswerRemote(p) ==
  /\ apc[p] = "remote" /\ areq[p].route = "question-answer"
  /\ LET r == areq[p] IN
       IF r.question # QuestionAll
       THEN LET s == [r EXCEPT !.sent = r.actual, !.remoteCalls = 1] IN
            \/ \E a \in {RemoteAnswer1} :
                 LET qa == <<[question |-> r.question, answer |-> a]>> IN
                 SaveOrFinish(p, [s EXCEPT !.answers = qa, !.pairs = qa])
            \/ QuestionAnswerFallback(p, s)
       ELSE LET s == [r EXCEPT !.sent = r.documentContent, !.remoteCalls = 1] IN
            \/ \E list \in BulkAnswers : SaveOrFinish(p, [s EXCEPT !.answers = list, !.pairs = list])
            \/ QuestionAnswerFallback(p, s)
  /\ UNCHANGED <<routerVars, storeVars, summarizeVars, mongoDocs, history>>

\* qa/route.ts POST, up to its first await after request.json()
QaReceive(p) ==
  \E body \in QaInputs :
    /\ apc[p] = "idle"
    /\ LET r == Locals(body) IN
       IF body.question = << >>
       THEN Finish(p, r, Response(400, "error", <<"Question is required">>))
       ELSE IF body.fingerprint # << >>
       THEN Goto(p, r, "lookup")
       ELSE Finish(p, r, Response(200, "notEnough", <<"Please upload a document first.">>))
    /\ UNCHANGED <<routerVars, storeVars, summarizeVars, mongoDocs, history>>

\* collection.findOne({ fingerprint: documentFingerprint }); errors are swallowed
QaLookup(p) ==
  /\ apc[p] = "lookup" /\ areq[p].route = "qa"
  /\ LET r == areq[p]
         found == {d \in mongoDocs : d.fingerprint = r.fingerprint[1]}
     IN \/ Finish(p, [r EXCEPT !.lookup = "error"],
                   Response(200, "notEnough", <<"Please upload a document first.">>))
        \/ /\ found = {} \/ \E d \in found : d.content = << >>
           /\ Finish(p, [r EXCEPT !.lookup = "missing"],
                     Response(200, "notEnough", <<"Please upload a document first.">>))
        \/ \E d \in found :
             /\ d.content # << >>
             /\ Goto(p, [r EXCEPT !.actual = <<d.content>>, !.lookup = "found"], "remote")
  /\ UNCHANGED <<routerVars, storeVars, summarizeVars, mongoDocs, history>>

\* fetch(QA_SERVER_URL/answer) of qa/route.ts
QaRemote(p) ==
  /\ apc[p] = "remote" /\ areq[p].route = "qa"
  /\ LET r == [areq[p] EXCEPT !.sent = areq[p].actual, !.remoteCalls = 1] IN
       \/ \E a \in {RemoteAnswer1} :
            LET qa == <<[question |-> r.question, answer |-> a]>> IN
            SaveOrFinish(p, [r EXCEPT !.answers = qa, !.pairs = qa])
       \/ Finish(p, [r EXCEPT !.remoteFailed = TRUE],
                 Response(200, "apology", <<"I'm sorry, I couldn't process your question. Please try again later.">>))
  /\ UNCHANGED <<routerVars, storeVars, summarizeVars, mongoDocs, history>>

\* variant: the new message is put in front of the history
saveMessage_prepend(userId, role, content, call) ==
  [history EXCEPT ![userId] = <<[role |-> role, content |-> content, call |-> call]>> \o @]

\* saveMessage of the ChatHistory model: append one message to a user's
\* history; call names the handler invocation that wrote the message
saveMessage(userId, role, content, call) ==
  [history EXCEPT ![userId] = Append(@, [role |-> role, content |-> content, call |-> call])]

\* after a pair is dealt with: the next pair, or the response
NextPair(p, r) ==
  LET t == [r EXCEPT !.pairs = Tail(r.pairs)] IN
  IF t.pairs # << >> THEN Goto(p, t, "saveQuestion") ELSE Finish(p, t, FinalResponse(t))

\* variant: a failed save of the question fails the request
SaveQuestion_fatal(p) ==
  /\ apc[p] = "saveQuestion"
  /\ LET r == areq[p] IN
       \/ /\ history' = saveMessage(r.userId[1], "user", r.pairs[1].question, p)
          /\ Goto(p, [r EXCEPT !.saved = @ + 1], "saveAnswer")
       \/ /\ history' = history
          /\ Finish(p, r, Response(500, "error", <<"Failed to process the question with custom model">>))
  /\ UNCHANGED <<routerVars, storeVars, summarizeVars, mongoDocs>>

\* saveQuestionAndAnswer up to the end of the first saveMessage; a throw
\* (connectToDatabase, getUserIdFromRequest or saveMessage) abandons the pair
SaveQuestion(p) ==
  /\ apc[p] = "saveQuestion"
  /\ LET r == areq[p] IN
       \/ /\ history' = saveMessage(r.userId[1], "user", r.pairs[1].question, p)
          /\ Goto(p, [r EXCEPT !.saved = @ + 1], "saveAnswer")
       \/ /\ history' = history
          /\ NextPair(p, r)
  /\ UNCHANGED <<routerVars, storeVars, summarizeVars, mongoDocs>>

\* the second saveMessage of saveQuestionAndAnswer
SaveAnswer(p) ==
  /\ apc[p] = "saveAnswer"
  /\ LET r == areq[p] IN
       \/ /\ history' = saveMessage(r.userId[1], "ai",
                          (IF r.isFallback THEN FallbackAnswerPrefix ELSE << >>) \o r.pairs[1].answer, p)
          /\ NextPair(p, [r EXCEPT !.saved = @ + 1])
       \/ /\ history' = history
          /\ NextPair(p, r)
  /\ UNCHANGED <<routerVars, storeVars, summarizeVars, mongoDocs>>

InitAnswer ==
  /\ DATABASE_PROVIDER = "mongodb"
  /\ fbEnabled = FALSE
  /\ fbAvail = FALSE
  /\ fbUsers = {}
  /\ fbDocs = {}
  /\ fbChats = {}
  /\ memDocs = {}
  /\ now = 0
  /\ nextId = 1
  /\ last = NoCall
  /\ StoreIdle
  /\ mongoDocs \in {{}, StoredDocs}
  /\ history = [u \in Users |-> << >>]
  /\ apc = [p \in Requests |-> "idle"]
  /\ areq = [p \in Requests |-> NoRequest]
  /\ resp = [p \in Requests |-> NoResponse]
  /\ SummarizeIdle

NextAnswer ==
  \E p \in Requests :
    \/ QuestionAnswerReceive(p)
    \/ QuestionAnswerLookup(p)
    \/ QuestionAnswerRemote(p)
    \/ QaReceive(p)
    \/ QaLookup(p)
    \/ QaRemote(p)
    \/ SaveQuestion(p)
    \/ SaveAnswer(p)

SpecAnswer == InitAnswer /\ [][NextAnswer]_vars

\* C9 (as claimed): an answer request with a question and resolved content
\* whose remote QA call failed ends in an HTTP-success response that carries
\* the fallback answer computed over the resolved content.
C9_RemoteFailureFallsBack ==
  \A p \in Requests :
    (apc[p] = "done" /\ areq[p].remoteFailed) =>
      /\ resp[p].status = 200
      /\ resp[p].answer = generateExtractiveAnswer(areq[p].actual[1], areq[p].question)

\* C11: an answer request with a question, no inline content and a fingerprint
\* that is absent or resolves to no stored content ends in HTTP 200 with the
\* "not enough information" answer, without any call to the remote QA service
\* and without any message appended to chat history.
NoStoredContent(fingerprint) ==
  fingerprint = << >> \/ ~\E d \in mongoDocs : d.fingerprint = fingerprint[1] /\ d.content # << >>

WithoutContent(p) ==
  /\ apc[p] = "done"
  /\ areq[p].question # << >>
  /\ ~Truthy(areq[p].documentContent)
  /\ NoStoredContent(areq[p].fingerprint)
  /\ areq[p].lookup # "error"

WrittenBy(p, u) == SelectSeq(history[u], LAMBDA m : m.call = p)

\* the answer save of p is under way or due, and p's question is the last
\* message p wrote
QuestionSavedFirst(p) ==
  apc[p] = "saveAnswer" =>
    LET mine == WrittenBy(p, areq[p].userId[1]) IN
    /\ mine # << >>
    /\ mine[Len(mine)].role = "user"
    /\ mine[Len(mine)].content = areq[p].pairs[1].question

\* among the messages of one call an answer always follows a question
AnswerAfterQuestion(p) ==
  \A u \in Users :
    LET mine == WrittenBy(p, u) IN
    \A i \in 1..Len(mine) :
      mine[i].role = "ai" => i > 1 /\ mine[i - 1].role = "user"

RanAloneAndSaved(p) ==
  /\ apc[p] = "done"
  /\ \A q \in Requests \ {p} : apc[q] = "idle"
  /\ areq[p].answers # << >>
  /\ areq[p].saved = 2 * Len(areq[p].answers)

C12_HistoryOrder ==
  \A p \in Requests :
    /\ QuestionSavedFirst(p)
    /\ AnswerAfterQuestion(p)
    /\ RanAloneAndSaved(p) =>
         LET h == history[areq[p].userId[1]]
             qa == areq[p].answers[Len(areq[p].answers)]
         IN /\ Len(h) >= 2
            /\ h[Len(h) - 1] = [role |-> "user", content |-> qa.question, call |-> p]
            /\ h[Len(h)] = [role |-> "ai", call |-> p,
                             content |-> (IF areq[p].isFallback THEN FallbackAnswerPrefix ELSE << >>) \o qa.answer]

C12_Witness ==
  \E p \in Requests :
    /\ RanAloneAndSaved(p)
    /\ areq[p].route = "qa"
    /\ Len(history[areq[p].userId[1]]) = 2

\* C14: when saving the question or the answer to chat history fails during an
\* answer call (single question, bulk or fallback), the HTTP status and the
\* answer returned are those of a call whose saves all succeeded.
HadAnswer(p) == apc[p] = "done" /\ areq[p].answers # << >> /\ areq[p].userId # << >>

ReturnedAnswer(r) ==
  IF r.route = "question-answer" /\ r.question = QuestionAll /\ ~r.isFallback
  THEN r.answers
  ELSE r.answers[1].answer

C14_SaveFailureNonFatal ==
  \A p \in Requests :
    HadAnswer(p) =>
      /\ areq[p].saved \in 0..(2 * Len(areq[p].answers))
      /\ resp[p].status = 200
      /\ resp[p].answer = ReturnedAnswer(areq[p])

C14_Witness ==
  \E p \in Requests :
    /\ HadAnswer(p)
    /\ areq[p].saved = 1
    /\ areq[p].isFallback
    /\ resp[p].status = 200

\* C26 (as claimed): for a request whose question is 'all' and whose content is
\* resolved, inline or from a fingerprint, one request carrying the whole
\* resolved text goes to the bulk endpoint, and for the returned pairs the
\* history gains q1, a1, ..., qn, an in that order.
RECURSIVE PairMessages(_, _)
PairMessages(pairs, p) ==
  IF pairs = << >> THEN << >>
  ELSE <<[role |-> "user", content |-> pairs[1].question, call |-> p],
         [role |-> "ai", content |-> pairs[1].answer, call |-> p]>> \o PairMessages(Tail(pairs), p)

BulkDone(p) ==
  /\ apc[p] = "done"
  /\ areq[p].route = "question-answer"
  /\ areq[p].question = QuestionAll
  /\ areq[p].actual # << >>

C26_BulkMode ==
  \A p \in Requests :
    BulkDone(p) =>
      /\ areq[p].remoteCalls = 1
      /\ areq[p].sent = areq[p].actual
      /\ (~areq[p].remoteFailed /\ areq[p].saved = 2 * Len(areq[p].answers)) =>
           WrittenBy(p, areq[p].userId[1]) = PairMessages(areq[p].answers, p)

\* C27 (as claimed): after an answer call completes, whatever save failures
\* occurred, the history holds both the question and the answer message of
\* each exchange of that call or neither; no question is left without its
\* answer.
C27_ExchangeAtomic ==
  \A p \in Requests :
    apc[p] = "done" =>
      \A u \in Users :
        LET mine == WrittenBy(p, u) IN
        \A i \in 1..Len(mine) :
          mine[i].role = "user" => i < Len(mine) /\ mine[i + 1].role = "ai"

\* C29 (as claimed): the document an answer request resolves from a
\* fingerprint is one owned by the requesting user.
C29_OwnerIsolation ==
  \A p \in Requests :
    (apc[p] \notin {"idle", "lookup"} /\ areq[p].lookup = "found") =>
      \E d \in mongoDocs :
        /\ d.fingerprint = areq[p].fingerprint[1]
        /\ <<d.content>> = areq[p].actual
        /\ <<d.userId>> = areq[p].userId

\* ------------------------------------------ concurrent answer calls
\* Answer calls of one user about one document, each handled by its own
\* invocation of a route handler, interleaved at their await points.
Callers == 1..NumCallers

SameUserAndDocument(r) ==
  /\ r.question = Question1
  /\ r.userId = <<"u1">>
  /\ r.documentContent = <<DocText>> \/ r.fingerprint = <<"f1">>

InitConcurrent ==
  /\ DATABASE_PROVIDER = "mongodb"
  /\ fbEnabled = FALSE
  /\ fbAvail = FALSE
  /\ fbUsers = {}
  /\ fbDocs = {}
  /\ fbChats = {}
  /\ memDocs = {}
  /\ now = 0
  /\ nextId = 1
  /\ last = NoCall
  /\ StoreIdle
  /\ mongoDocs = StoredDocs
  /\ history = [u \in Users |-> << >>]
  /\ apc = [p \in Callers |-> "idle"]
  /\ areq = [p \in Callers |-> NoRequest]
  /\ resp = [p \in Callers |-> NoResponse]
  /\ SummarizeIdle

NextConcurrent ==
  \E p \in Callers :
    \/ QuestionAnswerReceive(p) /\ SameUserAndDocument(areq'[p])
    \/ QuestionAnswerLookup(p)
    \/ QuestionAnswerRemote(p)
    \/ QaReceive(p) /\ SameUserAndDocument(areq'[p])
    \/ QaLookup(p)
    \/ QaRemote(p)
    \/ SaveQuestion(p)
    \/ SaveAnswer(p)

SpecAnswerConcurrent == InitConcurrent /\ [][NextConcurrent]_vars

\* C13 (as claimed): in every chat history, each answer message is immediately
\* preceded by the question message written by the same call, also when two
\* answer calls of one user about one document run concurrently.
C13_QuestionImmediatelyPrecedes ==
  \A u \in Users :
    \A i \in 1..Len(history[u]) :
      history[u][i].role = "ai" =>
        /\ i > 1
        /\ history[u][i - 1].role = "user"
        /\ history[u][i - 1].call = history[u][i].call

\* ======================================================= summarizeChunks
\* summarizeChunks of the summarize route: one fetch per chunk, all dispatched
\* before the first await, gathered by Promise.all inside one try block.
Chunk3 == <<"A", ".", " ", "B", ".", " ", "C", ".">>
Chunk1 == <<"D", ".">>
Chunk4 == <<"E", ".", " ", "F", ".", " ", "G", ".", " ", "H", ".">>
Chunks == {Chunk4, Chunk3, Chunk1}
RemoteSummaries == {<<"remote summary 1">>, <<"remote summary 2">>,
                    <<"I", "n", " ", "S", "u", "m", "m", "a", "r", "y", " ", "X">>}
ChunkLists == UNION {[1..n -> Chunks] : n \in 1..MaxChunks}
Pending == [status |-> "pending", summary |-> << >>]
Failed == [status |-> "failed", summary |-> << >>]
Ok(summary) == [status |-> "ok", summary |-> summary]

\* variant: the middle sentence is taken at floor((n - 1) / 2)
extractiveSummary_lowerMiddle(chunk) ==
  LET sentences == split(chunk, <<".", " ">>) IN
  IF Len(sentences) <= 2 THEN chunk
  ELSE sentences[1] \o <<".", " ">> \o sentences[((Len(sentences) - 1) \div 2) + 1] \o <<".">>

\* the fallback of the catch block, for one chunk
extractiveSummary(chunk) ==
  LET sentences == split(chunk, <<".", " ">>) IN
  IF Len(sentences) <= 2 THEN chunk
  ELSE sentences[1] \o <<".", " ">> \o sentences[(Len(sentences) \div 2) + 1] \o <<".">>

\* what the catch block returns
fallbackSummaries(chunks) == [i \in 1..Len(chunks) |-> extractiveSummary(chunks[i])]

\* chunks.map(async ...) starts every fetch; Promise.all is awaited
SummarizeChunksStart ==
  \E chunks \in ChunkLists :
    /\ spc = "idle"
    /\ spc' = "waiting"
    /\ schunks' = chunks
    /\ sfetch' = [i \in 1..Len(chunks) |-> Pending]
    /\ summaries' = << >>
    /\ UNCHANGED <<routerVars, storeVars, answerVars, fullText, maxChunkLength>>

\* variant: the summaries are collected in the order the fetches complete
FetchOk_completionOrder(i) ==
  \E summary \in RemoteSummaries :
    /\ spc # "idle" /\ i \in 1..Len(sfetch) /\ sfetch[i] = Pending
    /\ sfetch' = [sfetch EXCEPT ![i] = Ok(summary)]
    /\ IF spc = "waiting"
       THEN /\ summaries' = Append(summaries, summary)
            /\ spc' = IF \A j \in 1..Len(sfetch) : j # i => sfetch[j].status = "ok"
                      THEN "done" ELSE "waiting"
       ELSE UNCHANGED <<spc, summaries>>
    /\ UNCHANGED <<routerVars, storeVars, answerVars, schunks, fullText, maxChunkLength>>

\* a fetch answers 2xx with { summary }; Promise.all fulfils with the last one
FetchOk(i) ==
  \E summary \in RemoteSummaries :
    /\ spc # "idle" /\ i \in 1..Len(sfetch) /\ sfetch[i] = Pending
    /\ sfetch' = [sfetch EXCEPT ![i] = Ok(summary)]
    /\ IF spc = "waiting" /\ \A j \in 1..Len(sfetch) : j # i => sfetch[j].status = "ok"
       THEN /\ spc' = "done"
            /\ summaries' = [j \in 1..Len(sfetch) |-> sfetch'[j].summary]
       ELSE UNCHANGED <<spc, summaries>>
    /\ UNCHANGED <<routerVars, storeVars, answerVars, schunks, fullText, maxChunkLength>>

\* a fetch fails (non-2xx status, transport error): its promise rejects,
\* Promise.all rejects at once and the catch block returns
FetchFail(i) ==
  /\ spc # "idle" /\ i \in 1..Len(sfetch) /\ sfetch[i] = Pending
  /\ sfetch' = [sfetch EXCEPT ![i] = Failed]
  /\ IF spc = "waiting"
     THEN /\ spc' = "done"
          /\ summaries' = fallbackSummaries(schunks)
     ELSE UNCHANGED <<spc, summaries>>
  /\ UNCHANGED <<routerVars, storeVars, answerVars, schunks, fullText, maxChunkLength>>

InitSummarize ==
  /\ DATABASE_PROVIDER = "mongodb"
  /\ fbEnabled = FALSE
  /\ fbAvail = FALSE
  /\ fbUsers = {}
  /\ fbDocs = {}
  /\ fbChats = {}
  /\ memDocs = {}
  /\ now = 0
  /\ nextId = 1
  /\ last = NoCall
  /\ StoreIdle
  /\ AnswerIdle

NextSummarize ==
  \/ SummarizeChunksStart
  \/ \E i \in 1..MaxChunks : FetchOk(i)
  \/ \E i \in 1..MaxChunks : FetchFail(i)

SpecSummarize == InitSummarize /\ [][NextSummarize]_vars

\* C10 (as claimed): in the array summarizeChunks returns, every chunk whose
\* remote call succeeded has its remote summary and only the chunks whose call
\* failed have the extractive fallback.
C10_PerChunkFailover ==
  spc = "done" =>
    \A i \in 1..Len(schunks) :
      /\ sfetch[i].status = "ok" => summaries[i] = sfetch[i].summary
      /\ sfetch[i].status = "failed" => summaries[i] = extractiveSummary(schunks[i])

\* C21: when the remote summarization service is unavailable, the summary of a
\* chunk of at most 2 sentences (split on ". ") is the chunk unchanged and the
\* summary of a chunk of n > 2 sentences is sentence[0] + ". " +
\* sentence[floor(n/2)] + "."; for 4 sentences that is sentence[0] and [2].
RemoteUnavailable == spc = "done" /\ \E j \in 1..Len(sfetch) : sfetch[j].status = "failed"

C21_FallbackSummary ==
  RemoteUnavailable =>
    \A i \in 1..Len(schunks) :
      LET sentences == split(schunks[i], <<".", " ">>)
          n == Len(sentences)
      IN /\ n <= 2 => summaries[i] = schunks[i]
         /\ n > 2 => summaries[i] = sentences[1] \o <<".", " ">> \o sentences[(n \div 2) + 1] \o <<".">>
         /\ n = 4 => summaries[i] = sentences[1] \o <<".", " ">> \o sentences[3] \o <<".">>

C21_Witness ==
  /\ RemoteUnavailable
  /\ Len(schunks) = 2
  /\ schunks[1] = Chunk4 /\ summaries[1] = <<"E", ".", " ", "G", ".">>
  /\ schunks[2] = Chunk1 /\ summaries[2] = Chunk1

\* refineSummary and the joining of the summaries in POST
UnwantedPhrases ==
  <<<<"t", "h", "e", " ", "f", "o", "l", "l", "o", "w", "i", "n", "g">>,
    <<"a", "s", " ", "f", "o", "l", "l", "o", "w", "s">>,
    <<"i", "n", " ", "s", "u", "m", "m", "a", "r", "y">>,
    <<"t", "h", "i", "s", " ", "m", "e", "a", "n", "s", " ", "t", "h", "a", "t">>>>

\* String.prototype.replace(new RegExp(phrase, 'gi'), "")
RECURSIVE removeAll(_, _)
removeAll(s, phrase) ==
  IF ~includes(toLowerCase(s), phrase) THEN s
  ELSE LET k == CHOOSE i \in 1..(Len(s) - Len(phrase) + 1) :
                  /\ toLowerCase(SubSeq(s, i, i + Len(phrase) - 1)) = phrase
                  /\ \A j \in 1..(i - 1) : toLowerCase(SubSeq(s, j, j + Len(phrase) - 1)) # phrase
       IN SubSeq(s, 1, k - 1) \o removeAll(SubSeq(s, k + Len(phrase), Len(s)), phrase)

RECURSIVE removePhrases(_, _)
removePhrases(s, n) == IF n = 0 THEN s ELSE removeAll(removePhrases(s, n - 1), UnwantedPhrases[n])

refineSummary(summary) == trim(removePhrases(summary, Len(UnwantedPhrases)))

\* summaries.map(s => refineSummary(s)).join("\n\n")
finalSummary(list) == join([i \in 1..Len(list) |-> refineSummary(list[i])], <<"\n", "\n">>)

\* C17: the i-th part of the final summary is the summary of the i-th chunk,
\* for every order in which the concurrently dispatched fetches complete.
SummaryOfChunk(i) ==
  IF \E j \in 1..Len(sfetch) : sfetch[j].status = "failed"
  THEN extractiveSummary(schunks[i])
  ELSE sfetch[i].summary

C17_ChunkOrder ==
  spc = "done" =>
    /\ Len(summaries) = Len(schunks)
    /\ \A i \in 1..Len(schunks) : summaries[i] = SummaryOfChunk(i)
    /\ finalSummary(summaries) =
         join([i \in 1..Len(schunks) |-> refineSummary(SummaryOfChunk(i))], <<"\n", "\n">>)

C17_Witness ==
  /\ spc = "done"
  /\ Len(schunks) = 2
  /\ \A i \in 1..2 : sfetch[i].status = "ok"
  /\ sfetch[1].summary # sfetch[2].summary
  /\ finalSummary(summaries) = sfetch[1].summary \o <<"\n", "\n", "X">>

\* ============================================================ chunkText
\* cleanText and chunkText of the summarize route.
SentenceSeparator == <<".", " ">>

cleanText(text) == join(splitRuns(trim(text), Whitespace), <<" ">>)

\* sentence.split(/\s+/).length
sentenceLength(sentence) == Len(splitRuns(sentence, Whitespace))

\* chunks.push(currentChunk.join(". ") + ".")
renderChunk(currentChunk) == join(currentChunk, SentenceSeparator) \o <<".">>

\* the for loop of chunkText from sentence i on and the push after it; the
\* result is the list of the currentChunk arrays pushed, in order
RECURSIVE chunkLoop(_, _, _, _, _, _)
chunkLoop(sentences, i, pushed, currentChunk, currentLength, maxLength) ==
  IF i > Len(sentences)
  THEN IF Len(currentChunk) > 0 THEN Append(pushed, currentChunk) ELSE pushed
  ELSE LET n == sentenceLength(sentences[i]) IN
       IF currentLength + n > maxLength
       THEN chunkLoop(sentences, i + 1, Append(pushed, currentChunk), <<sentences[i]>>, n, maxLength)
       ELSE chunkLoop(sentences, i + 1, pushed, Append(currentChunk, sentences[i]), currentLength + n, maxLength)

\* the sentences chunkText puts in each chunk
chunkGroups(text, maxLength) == chunkLoop(split(text, SentenceSeparator), 1, << >>, << >>, 0, maxLength)

chunkText(text, maxLength) ==
  LET groups == chunkGroups(text, maxLength) IN [i \in 1..Len(groups) |-> renderChunk(groups[i])]

TextChars == {"a", ".", " "}
Texts == UNION {[1..n -> TextChars] : n \in 1..MaxTextLen}

\* chunkText(cleanText(fullText), maxChunkLength)
ChunkText ==
  \E text \in Texts, maxLength \in 1..MaxTokens :
    /\ spc = "idle"
    /\ spc' = "chunked"
    /\ fullText' = text
    /\ maxChunkLength' = maxLength
    /\ schunks' = chunkText(cleanText(text), maxLength)
    /\ UNCHANGED <<routerVars, storeVars, answerVars, sfetch, summaries>>

InitChunk ==
  /\ DATABASE_PROVIDER = "mongodb"
  /\ fbEnabled = FALSE
  /\ fbAvail = FALSE
  /\ fbUsers = {}
  /\ fbDocs = {}
  /\ fbChats = {}
  /\ memDocs = {}
  /\ now = 0
  /\ nextId = 1
  /\ last = NoCall
  /\ StoreIdle
  /\ AnswerIdle

NextChunk == ChunkText

SpecChunk == InitChunk /\ [][NextChunk]_vars

RECURSIVE Concat(_)
Concat(lists) == IF lists = << >> THEN << >> ELSE Head(lists) \o Concat(Tail(lists))

\* a chunk without the full stop chunkText appended to it
WithoutFullStop(chunk) == SubSeq(chunk, 1, Len(chunk) - 1)

\* C15 (as claimed): splitting each emitted chunk back into sentences and
\* concatenating the results in chunk order gives exactly the sentences of the
\* normalized input, whether or not the full stop appended to each chunk is
\* removed before splitting.
C15_LosslessChunking ==
  spc = "chunked" =>
    LET sentences == split(cleanText(fullText), SentenceSeparator) IN
    \/ Concat([i \in 1..Len(schunks) |-> split(schunks[i], SentenceSeparator)]) = sentences
    \/ Concat([i \in 1..Len(schunks) |-> split(WithoutFullStop(schunks[i]), SentenceSeparator)]) = sentences

\* words of a list of sentences, as chunkText counts them
RECURSIVE WordCount(_)
WordCount(group) == IF group = << >> THEN 0 ELSE sentenceLength(group[1]) + WordCount(Tail(group))

\* C16 (as claimed): every emitted chunk holds at least one input sentence,
\* every chunk of more than one sentence has at most maxTokens words, and a
\* chunk of more than maxTokens words is exactly one sentence.
C16_ChunkPacking ==
  spc = "chunked" =>
    LET groups == chunkGroups(cleanText(fullText), maxChunkLength) IN
    /\ schunks = [i \in 1..Len(groups) |-> renderChunk(groups[i])]
    /\ \A i \in 1..Len(groups) :
         /\ Len(groups[i]) >= 1
         /\ Len(groups[i]) > 1 => WordCount(groups[i]) <= maxChunkLength
         /\ WordCount(groups[i]) > maxChunkLength => Len(groups[i]) = 1

\* =============================================== generateExtractiveAnswer
\* The fallback of the catch block applied to documents of up to MaxSentences
\* sentences and to questions with and without punctuation.
SentenceTax == <<"T", "a", "x">>
SentenceFine == <<"F", "i", "n", "e", " ", "d", "u", "e">>
SentenceFee == <<"F", "e", "e">>
FallbackSentences == {SentenceTax, SentenceFine, SentenceFee}
FallbackDocs ==
  {join(list, <<".", " ">>) \o <<".">> : list \in UNION {[1..n -> FallbackSentences] : n \in 1..MaxSentences}}
QuestionPunctuated == <<"W", "h", "a", "t", " ", "f", "i", "n", "e", "?">>
QuestionWhy == <<"W", "h", "y">>
FallbackQuestions == {Question1, QuestionPunctuated, QuestionWhy}

\* const answer = generateExtractiveAnswer(documentContent, question)
GenerateExtractiveAnswer(p) ==
  \E doc \in FallbackDocs, q \in FallbackQuestions :
    /\ apc[p] = "idle"
    /\ apc' = [apc EXCEPT ![p] = "done"]
    /\ areq' = [areq EXCEPT ![p] = [route |-> "generateExtractiveAnswer", documentContent |-> doc, question |-> q]]
    /\ resp' = [resp EXCEPT ![p] = Response(200, "fallback", generateExtractiveAnswer(doc, q))]
    /\ UNCHANGED <<routerVars, storeVars, summarizeVars, mongoDocs, history>>

InitExtractive ==
  /\ DATABASE_PROVIDER = "mongodb"
  /\ fbEnabled = FALSE
  /\ fbAvail = FALSE
  /\ fbUsers = {}
  /\ fbDocs = {}
  /\ fbChats = {}
  /\ memDocs = {}
  /\ now = 0
  /\ nextId = 1
  /\ last = NoCall
  /\ StoreIdle
  /\ AnswerIdle

NextExtractive == \E p \in Requests : GenerateExtractiveAnswer(p)

SpecExtractive == InitExtractive /\ [][NextExtractive]_vars

\* the sentences of a document and their scores, as the fallback counts them
SentencesOf(doc) == SelectSeq(splitRuns(doc, Terminators), NonBlank)
QuestionWordsOf(q) == SelectSeq(splitRuns(toLowerCase(q), Whitespace), IsQuestionWord)
ScoreOf(sentence, q) ==
  LET w == QuestionWordsOf(q) IN
  Cardinality({k \in 1..Len(w) : includes(toLowerCase(sentence), w[k])})

Applied(p) == apc[p] = "done" /\ areq[p].route = "generateExtractiveAnswer"

\* sentence[0], the middle sentence and the last sentence, each listed once
RECURSIVE Once(_)
Once(indices) ==
  IF indices = << >> THEN << >>
  ELSE LET rest == Once(Tail(indices)) IN
       <<Head(indices)>> \o SelectSeq(rest, LAMBDA i : i # Head(indices))

KeyExcerpts(sentences) ==
  LET idx == Once(<<1, (Len(sentences) \div 2) + 1, Len(sentences)>>) IN
  [k \in 1..Len(idx) |-> trim(sentences[idx[k]])]

\* C22 (as claimed): when the document has sentences and every sentence scores
\* 0, the fallback answer is the "no confident answer" framing followed by
\* sentence[0], the middle sentence and the last sentence, each once; the
\* "found this information" framing is used only when some sentence scores
\* above 0.
C22_ZeroScorePath ==
  \A p \in Requests :
    Applied(p) =>
      LET sentences == SentencesOf(areq[p].documentContent)
          allZero == \A i \in 1..Len(sentences) : ScoreOf(sentences[i], areq[p].question) = 0
      IN /\ (sentences # << >> /\ allZero) =>
              resp[p].answer = NoMatchPrefix \o join(KeyExcerpts(sentences), <<"\n", "\n">>)
         /\ SubSeq(resp[p].answer, 1, Len(MatchPrefix)) = MatchPrefix => ~allZero

\* the content words of a question: its words, punctuation apart, that are
\* longer than 3 characters and are no stop-words
ContentWordsOf(q) == SelectSeq(splitRuns(toLowerCase(q), Whitespace \cup Terminators), IsQuestionWord)

ContentScore(sentence, q) ==
  LET w == ContentWordsOf(q) IN
  Cardinality({k \in 1..Len(w) : includes(toLowerCase(sentence), w[k])})

\* C23 (as claimed): a sentence that contains a content word of the question
\* is returned among the top 3 sentences, ahead of every sentence that contains
\* none, wherever it stands in the document; equal scores keep document order.
C23_FallbackRanking ==
  \A p \in Requests :
    Applied(p) =>
      LET sentences == SentencesOf(areq[p].documentContent)
          q == areq[p].question
          ranked == sortByScoreDesc([i \in 1..Len(sentences) |->
                                       [sentence |-> sentences[i], score |-> ContentScore(sentences[i], q)]])
          top == [i \in 1..Min(3, Len(ranked)) |-> trim(ranked[i].sentence)]
      IN (\E i \in 1..Len(sentences) : ContentScore(sentences[i], q) > 0) =>
           resp[p].answer = MatchPrefix \o join(top, <<"\n", "\n">>)

\* ========================================================= firebase-auth
\* firebaseAuthService: each method awaits Firebase Auth, whose outcome (ok)
\* the service does not control, and then, where the source says so, awaits
\* firebaseUserOps.upsertUser.  A method returns the credential, returns null
\* when Firebase Auth is not available, and throws when Firebase Auth refuses.
isAuthAvailable == isAvailable

AuthCall(op, userData, ok, fail, upserts) ==
  LET signedIn == isAuthAvailable /\ ok
      w == IF signedIn /\ upserts THEN firebase_upsertUser(userData, fail)
           ELSE [res |-> << >>, users |-> fbUsers]
  IN /\ w.users # fbUsers => now < MaxClock
     /\ fbUsers' = w.users
     /\ now' = IF w.users # fbUsers THEN now + 1 ELSE now
     /\ nextId' = IF Cardinality(w.users) > Cardinality(fbUsers) THEN nextId + 1 ELSE nextId
     /\ last' = [op |-> op, arg |-> userData.email, fail |-> fail,
                 res |-> IF signedIn THEN <<userData.email>> ELSE << >>,
                 called |-> IF signedIn /\ upserts THEN <<"upsertUser">> ELSE << >>,
                 outcomes |-> IF signedIn /\ upserts THEN <<w.res # << >>>> ELSE << >>]
     /\ UNCHANGED <<DATABASE_PROVIDER, fbEnabled, fbAvail, fbDocs, fbChats, memDocs, pc, req, snap,
                    answerVars, summarizeVars>>

AuthFails == IF isAvailable THEN BOOLEAN ELSE {FALSE}

signUp == \E d \in UserInputs, ok \in BOOLEAN, fail \in AuthFails : AuthCall("signUp", d, ok, fail, TRUE)
\* signIn has no upsertUser call, so no Firestore request that could throw
signIn ==
  \E d \in UserInputs, ok \in BOOLEAN :
    /\ AuthCall("signIn", d, ok, FALSE, FALSE)
    /\ last'.called = << >>
signInWithGoogle ==
  \E d \in UserInputs, ok \in BOOLEAN, fail \in AuthFails : AuthCall("signInWithGoogle", d, ok, fail, TRUE)
signInWithGitHub ==
  \E d \in UserInputs, ok \in BOOLEAN, fail \in AuthFails : AuthCall("signInWithGitHub", d, ok, fail, TRUE)

InitAuth ==
  /\ DATABASE_PROVIDER = "firebase"
  /\ fbEnabled \in BOOLEAN
  /\ fbAvail \in BOOLEAN
  /\ fbAvail => fbEnabled
  /\ fbUsers = {}
  /\ fbDocs = {}
  /\ fbChats = {}
  /\ memDocs = {}
  /\ now = 0
  /\ nextId = 1
  /\ last = NoCall
  /\ StoreIdle
  /\ AnswerIdle

NextAuth ==
  \/ signUp
  \/ signIn
  \/ signInWithGoogle
  \/ signInWithGitHub

SpecAuth == InitAuth /\ [][NextAuth]_vars

\* C24 (as claimed): every successful sign-up, password sign-in, Google
\* sign-in and GitHub sign-in performs an upsertUser for the signed-in email
\* before it returns, so that a user record for that email exists afterwards
\* when the store is available.
SignInOps == {"signUp", "signIn", "signInWithGoogle", "signInWithGitHub"}

C24_UpsertOnSignIn ==
  (last.op \in SignInOps /\ last.res # << >>) =>
    /\ last.called = <<"upsertUser">>
    /\ (isAvailable /\ ~last.fail) => \E u \in fbUsers : u.email = last.arg

\* ======================================================= summarize route
\* POST of the summarize route.  saveDocument (the Document model) and
\* generateFingerprint (document-utils) are the store-or-touch on the pair
\* (owner, fingerprint) and the deterministic content hash.  One request at a
\* time is inside summarizeChunks.
MinWords == 100
DefaultMaxChunkLength == 1000

Words(c, n) == [i \in 1..(2 * n - 1) |-> IF i % 2 = 1 THEN c ELSE " "]
LongTextA == Words("a", MinWords)
LongTextB == Words("b", MinWords)
ShortText == Words("a", MinWords - 1)
BlankText == <<" ", "\n">>
SummaryHeader == <<"### Structured Legal Summary ###", "\n">>

\* a content hash: equal contents, equal fingerprints; different contents of
\* the model, different fingerprints
generateFingerprint(content) ==
  CASE content = LongTextA -> "hashA"
    [] content = LongTextB -> "hashB"
    [] content = ShortText -> "hashShort"
    [] OTHER -> "hashOther"

File(name, text) == <<[name |-> name, text |-> text]>>
FileNames == {<<"a", ".txt">>, <<"a", ".pdf">>}
FileTexts == {BlankText, ShortText, LongTextA, LongTextB}
SummarizeInputs ==
  [file : {<< >>} \cup {File(n, t) : n \in FileNames, t \in FileTexts},
   fingerprint : {<< >>, <<"hashA">>},
   userId : {<< >>, <<"u1">>}]

endsWith(name, suffix) == name # << >> /\ name[Len(name)] = suffix

\* saveDocument(userId, fingerprint, fileName, fileSize, content)
saveDocument(userId, fingerprint, content) ==
  IF \E d \in mongoDocs : d.userId = userId /\ d.fingerprint = fingerprint
  THEN {IF d.userId = userId /\ d.fingerprint = fingerprint
        THEN [d EXCEPT !.lastAccessedAt = now + 1] ELSE d : d \in mongoDocs}
  ELSE mongoDocs \cup {[userId |-> userId, fingerprint |-> fingerprint, content |-> content,
                        lastAccessedAt |-> now + 1]}

Stage(r, label) == [r EXCEPT !.stages = Append(@, label)]

\* POST up to the await of saveDocument: the checks of the upload, the
\* fingerprint and the user id
SummarizeReceive(p) ==
  \E body \in SummarizeInputs :
    /\ apc[p] = "idle"
    /\ LET r == [route |-> "summarize", file |-> body.file, userId |-> body.userId,
                 supplied |-> body.fingerprint, fingerprint |-> << >>, stages |-> <<"RECEIVED">>,
                 before |-> mongoDocs]
       IN IF body.file = << >>
          THEN Finish(p, r, Response(400, "error", <<"No file provided">>))
          ELSE IF ~endsWith(body.file[1].name, ".txt")
          THEN Finish(p, r, Response(400, "error", <<"Only .txt files are supported">>))
          ELSE IF Len(trim(body.file[1].text)) = 0
          THEN Finish(p, r, Response(400, "error", <<"The file is empty">>))
          ELSE LET f == IF body.fingerprint # << >> THEN body.fingerprint
                        ELSE <<generateFingerprint(body.file[1].text)>>
                   t == Stage([r EXCEPT !.fingerprint = f], "FINGERPRINTED")
               IN IF body.userId = << >>
                  THEN Finish(p, t, Response(401, "error", <<"User identification failed. Cannot process document.">>))
                  ELSE Goto(p, t, "save")
    /\ UNCHANGED <<routerVars, storeVars, summarizeVars, mongoDocs, history>>

\* the await of saveDocument (a throw is logged and ignored), then cleanText,
\* the word count, chunkText and the dispatch of summarizeChunks
SummarizeSave(p) ==
  /\ apc[p] = "save" /\ areq[p].route = "summarize"
  /\ \E thrown \in BOOLEAN :
       LET r == areq[p]
           text == r.file[1].text
           hit == \E d \in mongoDocs : d.userId = r.userId[1] /\ d.fingerprint = r.fingerprint[1]
           t == IF thrown THEN r ELSE Stage(r, IF hit THEN "DEDUP_HIT" ELSE "STORED")
           cleanedText == cleanText(text)
       IN /\ ~thrown => now < MaxClock
          /\ mongoDocs' = IF thrown THEN mongoDocs ELSE saveDocument(r.userId[1], r.fingerprint[1], text)
          /\ now' = IF thrown THEN now ELSE now + 1
          /\ IF Len(splitRuns(cleanedText, Whitespace)) < MinWords
             THEN /\ Finish(p, Stage(t, "NORMALIZED"),
                            Response(400, "error", <<"Text is too short for meaningful summarization">>))
                  /\ UNCHANGED summarizeVars
             ELSE /\ spc = "idle"
                  /\ Goto(p, Stage(Stage(t, "NORMALIZED"), "CHUNKED"), "summarizing")
                  /\ spc' = "waiting"
                  /\ fullText' = text
                  /\ maxChunkLength' = DefaultMaxChunkLength
                  /\ schunks' = chunkText(cleanedText, DefaultMaxChunkLength)
                  /\ sfetch' = [i \in 1..Len(chunkText(cleanedText, DefaultMaxChunkLength)) |-> Pending]
                  /\ summaries' = << >>
  /\ UNCHANGED <<DATABASE_PROVIDER, fbEnabled, fbAvail, fbUsers, fbDocs, fbChats, memDocs, nextId, last,
                 storeVars, history>>

\* summarizeChunks has returned: refine, join and respond
SummarizeRespond(p) ==
  /\ apc[p] = "summarizing" /\ spc = "done"
  /\ Finish(p, Stage(Stage(areq[p], "SUMMARIZED"), "DONE"),
            Response(200, "summary", SummaryHeader \o finalSummary(summaries)))
  /\ spc' = "idle"
  /\ schunks' = << >>
  /\ sfetch' = << >>
  /\ summaries' = << >>
  /\ fullText' = << >>
  /\ maxChunkLength' = 0
  /\ UNCHANGED <<routerVars, storeVars, mongoDocs, history>>

\* documents uploaded earlier: none, or one the owner uploaded without a
\* fingerprint of the client
UploadedDocs ==
  {[userId |-> "u1", fingerprint |-> generateFingerprint(LongTextA), content |-> LongTextA,
    lastAccessedAt |-> 0]}

InitSummarizePost ==
  /\ DATABASE_PROVIDER = "mongodb"
  /\ fbEnabled = FALSE
  /\ fbAvail = FALSE
  /\ fbUsers = {}
  /\ fbDocs = {}
  /\ fbChats = {}
  /\ memDocs = {}
  /\ now = 0
  /\ nextId = 1
  /\ last = NoCall
  /\ StoreIdle
  /\ SummarizeIdle
  /\ mongoDocs \in {{}, UploadedDocs}
  /\ history = [u \in Users |-> << >>]
  /\ apc = [p \in 1..NumRequests |-> "idle"]
  /\ areq = [p \in 1..NumRequests |-> NoRequest]
  /\ resp = [p \in 1..NumRequests |-> NoResponse]

NextSummarizePost ==
  \/ \E p \in Requests : SummarizeReceive(p)
  \/ \E p \in Requests : SummarizeSave(p)
  \/ \E i \in 1..MaxChunks : FetchOk(i)
  \/ \E i \in 1..MaxChunks : FetchFail(i)
  \/ \E p \in Requests : SummarizeRespond(p)

SpecSummarizePost == InitSummarizePost /\ [][NextSummarizePost]_vars

SummarizeRequest(p) == apc[p] # "idle" /\ areq[p].route = "summarize"
ReturnedSummary(p) == SummarizeRequest(p) /\ apc[p] = "done" /\ resp[p].status = 200
Rejected(p) == SummarizeRequest(p) /\ apc[p] = "done" /\ resp[p].status # 200

PipelineOrders ==
  {<<"RECEIVED", "FINGERPRINTED", s, "NORMALIZED", "CHUNKED", "SUMMARIZED", "PERSISTED_HISTORY", "DONE">> :
     s \in {"DEDUP_HIT", "STORED"}}

\* C25: a summarize request that returns a summary has passed, in this order,
\* through RECEIVED, FINGERPRINTED, DEDUP_HIT or STORED, NORMALIZED, CHUNKED,
\* SUMMARIZED, PERSISTED_HISTORY and DONE: the document was stored or touched
\* before normalizing and the exchange was written to the chat history before
\* the request completed.
C25_PipelineOrder ==
  \A p \in Requests :
    ReturnedSummary(p) =>
      /\ areq[p].stages \in PipelineOrders
      /\ history[areq[p].userId[1]] # << >>

\* C28: a summarize request that is rejected (no file, not a .txt file, empty
\* text, fewer words than the minimum, no user) leaves the document store
\* exactly as it was before the request.
C28_RejectedLeavesStore ==
  \A p \in Requests : Rejected(p) => mongoDocs = areq[p].before

\* C30: the fingerprint of every stored document is the fingerprint of its
\* stored content, and an owner has no two documents of different content
\* under one fingerprint.
C30_ContentAddressed ==
  /\ \A d \in mongoDocs : d.fingerprint = generateFingerprint(d.content)
  /\ \A d, e \in mongoDocs :
       (d.userId = e.userId /\ d.fingerprint = e.fingerprint) => d.content = e.content

====
